---------------------------- MODULE Spec2Model ----------------------------
(***************************************************************************)
(* A model of the EVP method fetch layer (crypto/evp/evp_fetch.c), the     *)
(* digest envelope (EVP_MD_CTX_*, EVP_Digest*, evp_md_from_dispatch) and   *)
(* the identities of core_numbers.h.                                       *)
(*                                                                         *)
(* Thirteen specifications share the module:                               *)
(*   SpecMethodId   method_id as a pure function of two identities         *)
(*   SpecDispatch   evp_md_from_dispatch applied to dispatch tables        *)
(*   Spec           a library context with its providers, the method       *)
(*                  store and the query cache: fetch, free, defaults       *)
(*   SpecDoAll      evp_generic_do_all over the providers' algorithms      *)
(*   SpecStore      put_method_in_store and the removal of store entries   *)
(*   SpecRetry      fetches that fail and the fetches that follow them     *)
(*   SpecRace       two threads in evp_generic_fetch at the same time      *)
(*   SpecAlias      EVP_MD_fetch under two spellings of one name           *)
(*   SpecCtx        digest contexts over fetched and legacy digests        *)
(*   SpecDigest     two digest contexts: init, update, final, copy         *)
(*   SpecOneShot    EVP_Digest over fetched and legacy digests             *)
(*   SpecDH         the DH key exchange contexts of the default provider   *)
(*   SpecDHRef      the same with increments of key references that fail   *)
(***************************************************************************)
EXTENDS Integers, Sequences, FiniteSets, TLC

VARIABLES
    mid,              \* SpecMethodId: two (operation_id, name_id) pairs and their ids
    fns,              \* SpecDispatch: the dispatch table handed to the adapter
    fd,               \* SpecDispatch: the adapter's last call and its result
    md,               \* the EVP_MD records on the heap, by address
    provider_refcnt,  \* the reference count of each OSSL_PROVIDER
    libctx,           \* the library context: name map, default method store,
                      \* its query cache, the default property query
    held,             \* per record, the references the application was handed
    last_call,        \* the last public call: its arguments and what it did
    ub,               \* the program has run into undefined behaviour
    faults,           \* the calls so far in which an up_ref or a store insertion failed
    ctxs,             \* the EVP_MD_CTX objects, by address
    provctxs,         \* the providers' digest contexts, by address
    dhs,              \* SpecDH: the DH keys, by address
    dhctxs,           \* SpecDH: the PROV_DH_CTX objects, by address
    threads           \* SpecRace: per thread, where it is in evp_generic_fetch

vars == <<mid, fns, fd, md, provider_refcnt, libctx, held, last_call, ub, faults,
          ctxs, provctxs, dhs, dhctxs, threads>>
dhVars == <<dhs, dhctxs>>
\* What the functions behind a library context never touch.
pureVars == <<mid, fns, fd, dhVars, threads>>
ctxVars == <<ctxs, provctxs>>
appVars == <<libctx, held, last_call, ub, faults, ctxVars>>
libVars == <<md, provider_refcnt, appVars>>

NULL == 0

(***************************************************************************)
(* 32-bit unsigned values.  A uint32_t is kept as its two 16-bit halves,   *)
(* so that no intermediate value leaves the range of TLC's 32-bit          *)
(* integers; every operation below is the C operation on 32 bits.          *)
(***************************************************************************)
TwoPow8 == 256
TwoPow16 == TwoPow8 * TwoPow8
TwoPow24 == 16777216

RECURSIVE BitAnd(_, _)
BitAnd(a, b) ==
    IF a = 0 \/ b = 0 THEN 0
    ELSE 2 * BitAnd(a \div 2, b \div 2) + (IF a % 2 = 1 /\ b % 2 = 1 THEN 1 ELSE 0)

RECURSIVE BitOr(_, _)
BitOr(a, b) ==
    IF a = 0 THEN b
    ELSE IF b = 0 THEN a
    ELSE 2 * BitOr(a \div 2, b \div 2) + (IF a % 2 = 1 \/ b % 2 = 1 THEN 1 ELSE 0)

\* The conversion of a non-negative int to unsigned int.
U32(x) == [hi |-> (x \div TwoPow16) % TwoPow16, lo |-> x % TwoPow16]
\* u << 8 on 32 bits: the top byte is shifted out.
Shl8(u) == [hi |-> (u.hi % TwoPow8) * TwoPow8 + (u.lo \div TwoPow8),
            lo |-> (u.lo % TwoPow8) * TwoPow8]
\* u >> 8, as a number (at most 2^24 - 1).
Shr8(u) == u.hi * TwoPow8 + (u.lo \div TwoPow8)
And32(u, v) == [hi |-> BitAnd(u.hi, v.hi), lo |-> BitAnd(u.lo, v.lo)]
Or32(u, v) == [hi |-> BitOr(u.hi, v.hi), lo |-> BitOr(u.lo, v.lo)]
Zero32 == [hi |-> 0, lo |-> 0]
\* 0xFFFFFF00 and 0x000000FF
MaskName == [hi |-> TwoPow16 - 1, lo |-> TwoPow16 - TwoPow8]
MaskOp == [hi |-> 0, lo |-> TwoPow8 - 1]

(***************************************************************************)
(* method_id (evp_fetch.c).  ossl_assert(x) yields x; a failed assertion   *)
(* makes method_id return 0.  The first assertion is written with ||.      *)
(***************************************************************************)
method_id_mask16(operation_id, name_id) ==
    IF ~(name_id < TwoPow24 \/ operation_id < TwoPow8)
       \/ ~(name_id > 0 /\ operation_id > 0)
    THEN Zero32
    ELSE Or32(And32(Shl8(U32(name_id)), [hi |-> TwoPow16 - 1, lo |-> 0]),
              And32(U32(operation_id), MaskOp))

method_id(operation_id, name_id) ==
    IF ~(name_id < TwoPow24 \/ operation_id < TwoPow8)
       \/ ~(name_id > 0 /\ operation_id > 0)
    THEN Zero32
    ELSE Or32(And32(Shl8(U32(name_id)), MaskName),
              And32(U32(operation_id), MaskOp))


(***************************************************************************)
(* Identities of core_numbers.h                                            *)
(***************************************************************************)
OSSL_OP_DIGEST == 1
OSSL_OP_CIPHER == 2
OSSL_OP_KEYMGMT == 10
OSSL_OP_KEYEXCH == 11
OSSL_OP__HIGHEST == 3

OSSL_FUNC_DIGEST_NEWCTX == 1
OSSL_FUNC_DIGEST_INIT == 2
OSSL_FUNC_DIGEST_UPDATE == 3
OSSL_FUNC_DIGEST_FINAL == 4
OSSL_FUNC_DIGEST_DIGEST == 5
OSSL_FUNC_DIGEST_FREECTX == 6
OSSL_FUNC_DIGEST_DUPCTX == 7
OSSL_FUNC_DIGEST_SIZE == 8
OSSL_FUNC_DIGEST_BLOCK_SIZE == 9
OSSL_FUNC_DIGEST_SET_PARAMS == 10
OSSL_FUNC_DIGEST_GET_PARAMS == 11

OSSL_FUNC_CIPHER_NEWCTX == 1
OSSL_FUNC_CIPHER_ENCRYPT_INIT == 2
OSSL_FUNC_CIPHER_DECRYPT_INIT == 3
OSSL_FUNC_CIPHER_UPDATE == 4
OSSL_FUNC_CIPHER_FINAL == 5
OSSL_FUNC_CIPHER_CIPHER == 6
OSSL_FUNC_CIPHER_FREECTX == 7
OSSL_FUNC_CIPHER_DUPCTX == 8
OSSL_FUNC_CIPHER_GET_PARAMS == 9
OSSL_FUNC_CIPHER_CTX_GET_PARAMS == 10
OSSL_FUNC_CIPHER_CTX_SET_PARAMS == 11
OSSL_FUNC_KEYMGMT_IMPORTDOMPARAMS == 1
OSSL_FUNC_KEYMGMT_GENDOMPARAMS == 2
OSSL_FUNC_KEYMGMT_FREEDOMPARAMS == 3
OSSL_FUNC_KEYMGMT_EXPORTDOMPARAMS == 4
OSSL_FUNC_KEYMGMT_IMPORTDOMPARAM_TYPES == 5
OSSL_FUNC_KEYMGMT_EXPORTDOMPARAM_TYPES == 6
OSSL_FUNC_KEYMGMT_IMPORTKEY == 10
OSSL_FUNC_KEYMGMT_GENKEY == 11
OSSL_FUNC_KEYMGMT_LOADKEY == 12
OSSL_FUNC_KEYMGMT_FREEKEY == 13
OSSL_FUNC_KEYMGMT_EXPORTKEY == 14
OSSL_FUNC_KEYMGMT_IMPORTKEY_TYPES == 15
OSSL_FUNC_KEYMGMT_EXPORTKEY_TYPES == 16
OSSL_FUNC_KEYEXCH_NEWCTX == 1
OSSL_FUNC_KEYEXCH_INIT == 2
OSSL_FUNC_KEYEXCH_DERIVE == 3
OSSL_FUNC_KEYEXCH_SET_PEER == 4
OSSL_FUNC_KEYEXCH_FREECTX == 5
OSSL_FUNC_KEYEXCH_DUPCTX == 6
OSSL_FUNC_KEYEXCH_SET_PARAMS == 7

\* The function ids of each operation, in the order of the header.
DigestFunctionIdsInOrder ==
    <<OSSL_FUNC_DIGEST_NEWCTX, OSSL_FUNC_DIGEST_INIT, OSSL_FUNC_DIGEST_UPDATE,
      OSSL_FUNC_DIGEST_FINAL, OSSL_FUNC_DIGEST_DIGEST, OSSL_FUNC_DIGEST_FREECTX,
      OSSL_FUNC_DIGEST_DUPCTX, OSSL_FUNC_DIGEST_SIZE, OSSL_FUNC_DIGEST_BLOCK_SIZE,
      OSSL_FUNC_DIGEST_SET_PARAMS, OSSL_FUNC_DIGEST_GET_PARAMS>>
CipherFunctionIds ==
    <<OSSL_FUNC_CIPHER_NEWCTX, OSSL_FUNC_CIPHER_ENCRYPT_INIT,
      OSSL_FUNC_CIPHER_DECRYPT_INIT, OSSL_FUNC_CIPHER_UPDATE,
      OSSL_FUNC_CIPHER_FINAL, OSSL_FUNC_CIPHER_CIPHER,
      OSSL_FUNC_CIPHER_FREECTX, OSSL_FUNC_CIPHER_DUPCTX,
      OSSL_FUNC_CIPHER_GET_PARAMS, OSSL_FUNC_CIPHER_CTX_GET_PARAMS,
      OSSL_FUNC_CIPHER_CTX_SET_PARAMS>>
KeymgmtFunctionIds ==
    <<OSSL_FUNC_KEYMGMT_IMPORTDOMPARAMS, OSSL_FUNC_KEYMGMT_GENDOMPARAMS,
      OSSL_FUNC_KEYMGMT_FREEDOMPARAMS, OSSL_FUNC_KEYMGMT_EXPORTDOMPARAMS,
      OSSL_FUNC_KEYMGMT_IMPORTDOMPARAM_TYPES,
      OSSL_FUNC_KEYMGMT_EXPORTDOMPARAM_TYPES, OSSL_FUNC_KEYMGMT_IMPORTKEY,
      OSSL_FUNC_KEYMGMT_GENKEY, OSSL_FUNC_KEYMGMT_LOADKEY,
      OSSL_FUNC_KEYMGMT_FREEKEY, OSSL_FUNC_KEYMGMT_EXPORTKEY,
      OSSL_FUNC_KEYMGMT_IMPORTKEY_TYPES, OSSL_FUNC_KEYMGMT_EXPORTKEY_TYPES>>
KeyexchFunctionIds ==
    <<OSSL_FUNC_KEYEXCH_NEWCTX, OSSL_FUNC_KEYEXCH_INIT,
      OSSL_FUNC_KEYEXCH_DERIVE, OSSL_FUNC_KEYEXCH_SET_PEER,
      OSSL_FUNC_KEYEXCH_FREECTX, OSSL_FUNC_KEYEXCH_DUPCTX,
      OSSL_FUNC_KEYEXCH_SET_PARAMS>>

\* The operations of the header, each with its function ids.
Operations ==
    {[id |-> OSSL_OP_DIGEST, functions |-> DigestFunctionIdsInOrder],
     [id |-> OSSL_OP_CIPHER, functions |-> CipherFunctionIds],
     [id |-> OSSL_OP_KEYMGMT, functions |-> KeymgmtFunctionIds],
     [id |-> OSSL_OP_KEYEXCH, functions |-> KeyexchFunctionIds]}

(***************************************************************************)
(* The heap of EVP_MD records.  An address is a slot number; NULL is 0.    *)
(* A function pointer is NULL or a positive number naming the function.    *)
(***************************************************************************)
MaxMd == 3

Providers == {1, 2}
NID_undef == 0

MdAddrs == 1 .. MaxMd

\* What EVP_MD_meth_new(NID_undef, NID_undef) returns: a zeroed record with
\* one reference.
NewMd == [live |-> TRUE, refcnt |-> 1, name |-> "", prov |-> NULL,
          type |-> NID_undef,
          newctx |-> NULL, dinit |-> NULL, dupdate |-> NULL, dfinal |-> NULL,
          digest |-> NULL, freectx |-> NULL, dupctx |-> NULL, size |-> NULL,
          dblock_size |-> NULL, set_params |-> NULL, get_params |-> NULL]

FreeMd == [NewMd EXCEPT !.live = FALSE, !.refcnt = 0]

EmptyHeap == [a \in MdAddrs |-> FreeMd]

\* The world the library functions act on: the heap, the providers'
\* reference counts, and the addresses that some pointer still holds
\* (malloc is modelled as never handing out an address that a stale pointer
\* still names, so that a stale pointer is never taken for a new record).
World0(heap, prc, pinned) == [md |-> heap, prov |-> prc, pinned |-> pinned]

\* OPENSSL_zalloc of a record: the lowest free address, NULL when there is none.
AllocMd(w) ==
    LET free == {a \in MdAddrs : ~w.md[a].live /\ a \notin w.pinned}
    IN IF free = {} THEN NULL ELSE CHOOSE a \in free : \A b \in free : a <= b

ossl_provider_up_ref(w, prov) == [w EXCEPT !.prov[prov] = @ + 1]

ossl_provider_free(w, prov) ==
    IF prov = NULL THEN w ELSE [w EXCEPT !.prov[prov] = @ - 1]

\* Drops one reference; the last one releases the provider and the record.
EVP_MD_meth_free(w, m) ==
    IF m = NULL THEN w
    ELSE IF ~w.md[m].live THEN [w EXCEPT !.ub = TRUE]
    ELSE IF w.md[m].refcnt > 1 THEN [w EXCEPT !.md[m].refcnt = @ - 1]
    ELSE [ossl_provider_free(w, w.md[m].prov) EXCEPT !.md[m] = FreeMd]

(***************************************************************************)
(* evp_md_from_dispatch.  A dispatch table is a sequence of                *)
(* [function_id, function] entries that ends with the entry (0, NULL).     *)
(***************************************************************************)
Entry(id, f) == [function_id |-> id, function |-> f]
Terminator == Entry(0, NULL)

\* Two functions a provider may supply, and a function id no case reads.
F1 == NULL + 1
F2 == F1 + 1
UnknownFunctionId == OSSL_FUNC_DIGEST_GET_PARAMS + 1

\* One turn of the switch: m is [md: the record being built, fncnt].
md_decode_entry(m, e) ==
    CASE e.function_id = OSSL_FUNC_DIGEST_NEWCTX ->
            IF m.md.newctx = NULL
            THEN [md |-> [m.md EXCEPT !.newctx = e.function], fncnt |-> m.fncnt + 1]
            ELSE m
      [] e.function_id = OSSL_FUNC_DIGEST_INIT ->
            IF m.md.dinit = NULL
            THEN [md |-> [m.md EXCEPT !.dinit = e.function], fncnt |-> m.fncnt + 1]
            ELSE m
      [] e.function_id = OSSL_FUNC_DIGEST_UPDATE ->
            IF m.md.dupdate = NULL
            THEN [md |-> [m.md EXCEPT !.dupdate = e.function], fncnt |-> m.fncnt + 1]
            ELSE m
      [] e.function_id = OSSL_FUNC_DIGEST_FINAL ->
            IF m.md.dfinal = NULL
            THEN [md |-> [m.md EXCEPT !.dfinal = e.function], fncnt |-> m.fncnt + 1]
            ELSE m
      [] e.function_id = OSSL_FUNC_DIGEST_DIGEST ->
            IF m.md.digest = NULL
            THEN [m EXCEPT !.md.digest = e.function]
            ELSE m
      [] e.function_id = OSSL_FUNC_DIGEST_FREECTX ->
            IF m.md.freectx = NULL
            THEN [md |-> [m.md EXCEPT !.freectx = e.function], fncnt |-> m.fncnt + 1]
            ELSE m
      [] e.function_id = OSSL_FUNC_DIGEST_DUPCTX ->
            IF m.md.dupctx = NULL THEN [m EXCEPT !.md.dupctx = e.function] ELSE m
      [] e.function_id = OSSL_FUNC_DIGEST_SIZE ->
            IF m.md.size = NULL THEN [m EXCEPT !.md.size = e.function] ELSE m
      [] e.function_id = OSSL_FUNC_DIGEST_BLOCK_SIZE ->
            IF m.md.dblock_size = NULL
            THEN [m EXCEPT !.md.dblock_size = e.function]
            ELSE m
      [] e.function_id = OSSL_FUNC_DIGEST_SET_PARAMS ->
            IF m.md.set_params = NULL
            THEN [m EXCEPT !.md.set_params = e.function]
            ELSE m
      [] e.function_id = OSSL_FUNC_DIGEST_GET_PARAMS ->
            IF m.md.get_params = NULL
            THEN [m EXCEPT !.md.get_params = e.function]
            ELSE m
      [] OTHER -> m

\* The function ids the switch has a case for.
DigestFunctionIds ==
    {OSSL_FUNC_DIGEST_NEWCTX, OSSL_FUNC_DIGEST_INIT, OSSL_FUNC_DIGEST_UPDATE,
     OSSL_FUNC_DIGEST_FINAL, OSSL_FUNC_DIGEST_DIGEST, OSSL_FUNC_DIGEST_FREECTX,
     OSSL_FUNC_DIGEST_DUPCTX, OSSL_FUNC_DIGEST_SIZE, OSSL_FUNC_DIGEST_BLOCK_SIZE,
     OSSL_FUNC_DIGEST_SET_PARAMS, OSSL_FUNC_DIGEST_GET_PARAMS}

\* A mutant: an entry with another function id counts as one of the five.
RECURSIVE md_decode_counting_others(_, _, _)
md_decode_counting_others(table, i, m) ==
    IF table[i].function_id = 0 THEN m
    ELSE IF table[i].function_id \notin DigestFunctionIds
    THEN md_decode_counting_others(table, i + 1, [m EXCEPT !.fncnt = @ + 1])
    ELSE md_decode_counting_others(table, i + 1, md_decode_entry(m, table[i]))

\* for (; fns->function_id != 0; fns++)
RECURSIVE md_decode(_, _, _)
md_decode(table, i, m) ==
    IF table[i].function_id = 0 THEN m
    ELSE md_decode(table, i + 1, md_decode_entry(m, table[i]))

\* A mutant of the final test: a one-shot digest makes up for a partial set.
md_inconsistent_digest_suffices(m) ==
    \/ (m.fncnt # 5 /\ m.md.digest = NULL)
    \/ m.md.size = NULL

\* The test that rejects the decoded table.
md_inconsistent(m) ==
    \/ (m.fncnt # 0 /\ m.fncnt # 5)
    \/ (m.fncnt = 0 /\ m.md.digest = NULL)
    \/ m.md.size = NULL

\* A mutant of the tail: the provider is bound to the record before the test.
md_validate_and_bind_early(w, a, m, prov) ==
    LET w1 == IF prov # NULL THEN ossl_provider_up_ref(w, prov) ELSE w
    IN IF md_inconsistent(m)
       THEN [w |-> [w1 EXCEPT !.md[a] = FreeMd], ret |-> NULL]
       ELSE [w |-> [w1 EXCEPT !.md[a] = [m.md EXCEPT !.prov = prov]], ret |-> a]

\* The tail of evp_md_from_dispatch: reject and free, or bind the provider.
md_validate_and_bind(w, a, m, prov) ==
    IF md_inconsistent(m)
    THEN [w |-> EVP_MD_meth_free([w EXCEPT !.md[a] = m.md], a), ret |-> NULL]
    ELSE LET w1 == [w EXCEPT !.md[a] = [m.md EXCEPT !.prov = prov]]
         IN [w |-> IF prov # NULL THEN ossl_provider_up_ref(w1, prov) ELSE w1,
             ret |-> a]

\* mem says which allocation fails, if any: "md" (EVP_MD_meth_new), "name"
\* (OPENSSL_strdup) or "none".  EVP_MD_meth_new also fails when the heap is full.
evp_md_from_dispatch(w, name, table, prov, mem) ==
    LET a == AllocMd(w)
    IN IF mem = "md" \/ a = NULL
       THEN [w |-> w, ret |-> NULL]
       ELSE IF mem = "name"
       THEN [w |-> EVP_MD_meth_free([w EXCEPT !.md[a] = NewMd], a), ret |-> NULL]
       ELSE md_validate_and_bind(
                [w EXCEPT !.md[a] = NewMd], a,
                md_decode(table, 1, [md |-> [NewMd EXCEPT !.name = name], fncnt |-> 0]),
                prov)

NoCall == [called |-> FALSE]


(***************************************************************************)
(* Properties.  A property definition and a property query are sets of     *)
(* atoms; "=" atoms are mandatory, "?" atoms are preferences.  A string    *)
(* that does not parse is the set Malformed.                               *)
(***************************************************************************)
Atom(n, o, v) == [name |-> n, op |-> o, value |-> v]
QEmpty == {}
QFipsYes == {Atom("fips", "=", "yes")}
QFipsNo == {Atom("fips", "=", "no")}
QPreferYes == {Atom("fips", "?", "yes")}
Malformed == {Atom("", "", "")}

ossl_parse_query(q) == IF \E a \in q : a.name = "" THEN NULL ELSE 1

\* The default properties are added to the query, except for the names the
\* query gives itself.
ossl_property_merge(q, defaults) ==
    q \cup {a \in defaults : \A b \in q : b.name # a.name}

Satisfies(def, a) == \E d \in def : d.name = a.name /\ d.value = a.value
Mandatory(q) == {a \in q : a.op = "="}
ossl_property_match(def, q) == \A a \in Mandatory(q) : Satisfies(def, a)
ossl_property_score(def, q) == Cardinality({a \in q : a.op = "?" /\ Satisfies(def, a)})

(***************************************************************************)
(* Providers and what their query_operation returns: per operation, a      *)
(* sequence of (algorithm_name, implementation, property_definition).      *)
(***************************************************************************)
FullTable ==
    <<Entry(OSSL_FUNC_DIGEST_NEWCTX, F1), Entry(OSSL_FUNC_DIGEST_INIT, F1),
      Entry(OSSL_FUNC_DIGEST_UPDATE, F1), Entry(OSSL_FUNC_DIGEST_FINAL, F1),
      Entry(OSSL_FUNC_DIGEST_FREECTX, F1), Entry(OSSL_FUNC_DIGEST_DUPCTX, F1),
      Entry(OSSL_FUNC_DIGEST_SIZE, F1), Terminator>>
OneShotTable ==
    <<Entry(OSSL_FUNC_DIGEST_DIGEST, F1), Entry(OSSL_FUNC_DIGEST_SIZE, F1), Terminator>>
PartialTable ==
    <<Entry(OSSL_FUNC_DIGEST_NEWCTX, F1), Entry(OSSL_FUNC_DIGEST_DIGEST, F1),
      Entry(OSSL_FUNC_DIGEST_SIZE, F1), Terminator>>

Algorithm(n, impl, def) ==
    [algorithm_name |-> n, implementation |-> impl, property_definition |-> def]

query_operation(prov, operation_id) ==
    IF operation_id # OSSL_OP_DIGEST THEN <<>>
    ELSE IF prov = 1
    THEN <<Algorithm("A", FullTable, QFipsNo), Algorithm("B", OneShotTable, QFipsNo)>>
    ELSE <<Algorithm("A", FullTable, QFipsYes), Algorithm("C", PartialTable, QFipsYes)>>

Names == {"A", "B", "C"}

(***************************************************************************)
(* The library context and the world the library functions act on.         *)
(***************************************************************************)
MaxHeld == 2
MaxFaults == 1
MaxCtx == 2
MaxProvCtx == 2
MaxData == 1
MaxDh == 3
MaxDhCtx == 2

DhAddrs == 1 .. MaxDh
DhCtxAddrs == 1 .. MaxDhCtx

\* A DH key the application made and owns one reference to.
NewDh == [live |-> TRUE, references |-> 1]
FreeDh == [live |-> FALSE, references |-> 0]

\* What OPENSSL_zalloc(sizeof(PROV_DH_CTX)) returns, and a freed context.
\* init_ok, peer_ok and pad_set are not fields of the structure: they
\* record whether dh_init and dh_set_peer have returned 1 on the context, and
\* the value of the last dh_set_params that returned 1.
ZeroDhCtx == [live |-> TRUE, dh |-> NULL, dhpeer |-> NULL, pad |-> 0,
              init_ok |-> FALSE, peer_ok |-> FALSE, pad_set |-> 0]
FreeDhCtx == [ZeroDhCtx EXCEPT !.live = FALSE]

CtxAddrs == 1 .. MaxCtx
ProvCtxAddrs == 1 .. MaxProvCtx

EVP_MD_CTX_FLAG_CLEANED == "EVP_MD_CTX_FLAG_CLEANED"

\* What OPENSSL_zalloc(sizeof(EVP_MD_CTX)) returns, and a freed context.
ZeroCtx == [live |-> TRUE, digest |-> NULL, fetched_digest |-> NULL,
            reqdigest |-> NULL, provctx |-> NULL, flags |-> {}]
FreeCtx == [ZeroCtx EXCEPT !.live = FALSE]

\* A provider's digest context: what newctx returns, and a freed one.
\* data is the number of bytes the context has absorbed, impl the record
\* through whose slot the context was made.
NewProvCtx == [live |-> TRUE, state |-> "new", data |-> 0, impl |-> NULL]
FreeProvCtx == [live |-> FALSE, state |-> "freed", data |-> 0, impl |-> NULL]

InitLibctx == [namemap |-> <<>>, store |-> <<>>, cache |-> {},
               global_properties |-> QEmpty]

NoLastCall == [fn |-> "none"]

Threads == {1, 2}
Idle == [pc |-> "idle"]

InitLib ==
    /\ threads = [t \in Threads |-> Idle]
    /\ md = EmptyHeap
    /\ provider_refcnt = [p \in Providers |-> 1]
    /\ libctx = InitLibctx
    /\ held = [a \in MdAddrs |-> 0]
    /\ last_call = NoLastCall
    /\ ub = FALSE
    /\ faults = 0
    /\ ctxs = [c \in CtxAddrs |-> FreeCtx]
    /\ provctxs = [p \in ProvCtxAddrs |-> FreeProvCtx]
    /\ dhs = [k \in DhAddrs |-> NewDh]
    /\ dhctxs = [c \in DhCtxAddrs |-> FreeDhCtx]

\* The addresses some pointer holds: the application's handles, the entries
\* of the store and of its cache.
Pinned ==
    {a \in MdAddrs : held[a] > 0}
    \cup {libctx.store[i].method : i \in 1 .. Len(libctx.store)}
    \cup {c.method : c \in libctx.cache}
    \cup {ctxs[c].digest : c \in CtxAddrs}
    \cup {ctxs[c].fetched_digest : c \in CtxAddrs}
    \cup {ctxs[c].reqdigest : c \in CtxAddrs}

\* env is what the callbacks and allocations of this call do: up_ok, whether
\* up_ref_method succeeds; add_ok, whether ossl_method_store_add succeeds.
\* trace is the sequence of the calls made into the provider and of the
\* releases of memory, in the order the call makes them.
World(env) ==
    [md |-> md, prov |-> provider_refcnt, pinned |-> Pinned, lib |-> libctx,
     tmp |-> <<>>, env |-> env, queried |-> {}, path |-> "none", ub |-> FALSE,
     made |-> <<>>, calls |-> <<>>, ctx |-> ctxs, pc |-> provctxs,
     trace |-> <<>>]

\* At most MaxFaults calls of a behaviour meet a failure.
Envs == IF faults < MaxFaults
        THEN {e \in [up_ok : BOOLEAN, add_ok : BOOLEAN] : e.up_ok \/ e.add_ok}
        ELSE {[up_ok |-> TRUE, add_ok |-> TRUE]}
EnvOk == [up_ok |-> TRUE, add_ok |-> TRUE]
FaultsAfter(env) == IF env = EnvOk THEN faults ELSE faults + 1

\* A read or write through a pointer to a freed record is undefined.
Deref(w, m) == IF w.md[m].live THEN w ELSE [w EXCEPT !.ub = TRUE]

\* evp_md_up_ref, the up_ref_method of digests.
evp_md_up_ref(w, m) ==
    IF w.env.up_ok
    THEN [w |-> [Deref(w, m) EXCEPT !.md[m].refcnt = @ + 1], ret |-> 1]
    ELSE [w |-> w, ret |-> 0]

\* evp_md_free, the free_method of digests.
evp_md_free(w, m) == EVP_MD_meth_free(w, m)

(***************************************************************************)
(* Name map                                                                *)
(***************************************************************************)
\* Names are equal when they are equal after ASCII folding.
Lowercase == [n \in {"A", "B", "C"} |-> CASE n = "A" -> "a" [] n = "B" -> "b" [] n = "C" -> "c"]
Fold(name) == IF name \in DOMAIN Lowercase THEN Lowercase[name] ELSE name
SameName(n1, n2) == Fold(n1) = Fold(n2)

ossl_namemap_name2num(namemap, name) ==
    IF \E i \in 1 .. Len(namemap) : SameName(namemap[i], name)
    THEN CHOOSE i \in 1 .. Len(namemap) : SameName(namemap[i], name)
    ELSE 0

\* ossl_namemap_add(namemap, 0, name): the number of the name, new if needed.
ossl_namemap_add(w, name) ==
    IF ossl_namemap_name2num(w.lib.namemap, name) # 0
    THEN [w |-> w, ret |-> ossl_namemap_name2num(w.lib.namemap, name)]
    ELSE [w |-> [w EXCEPT !.lib.namemap = Append(@, name)],
          ret |-> Len(w.lib.namemap) + 1]

(***************************************************************************)
(* Method store.  store is NULL for the default store of the library       *)
(* context, TmpStore for the temporary store of a construction.            *)
(***************************************************************************)
TmpStore == NULL + 1

StoreOf(w, store) == IF store = NULL THEN w.lib.store ELSE w.tmp

\* The best match of the query, merged with the default properties: the
\* highest score, the earliest inserted among equals.
ossl_method_store_fetch(w, store, methid, prop_query) ==
    LET impls == StoreOf(w, store)
        pq == ossl_property_merge(prop_query, w.lib.global_properties)
        ok == {i \in 1 .. Len(impls) :
                 /\ impls[i].methid = methid
                 /\ ossl_property_match(impls[i].propdef, pq)}
        score(i) == ossl_property_score(impls[i].propdef, pq)
    IN IF ok = {} THEN NULL
       ELSE impls[CHOOSE i \in ok :
                    \A j \in ok : score(j) < score(i) \/ (score(j) = score(i) /\ i <= j)].method

\* The first promotion of an implementation wins: the store does not take
\* a second record of the same provider under the same method id and
\* property definition.
StoreEntries(w, store) == IF store = NULL THEN w.lib.store ELSE w.tmp
StoreHas(w, store, methid, propdef, method) ==
    \E i \in 1 .. Len(StoreEntries(w, store)) :
        /\ StoreEntries(w, store)[i].methid = methid
        /\ StoreEntries(w, store)[i].propdef = propdef
        /\ w.md[StoreEntries(w, store)[i].method].prov = w.md[method].prov

ossl_method_store_add(w, store, methid, propdef, method) ==
    IF ~w.env.add_ok \/ StoreHas(w, store, methid, propdef, method)
    THEN [w |-> w, ret |-> 0]
    ELSE [w |-> IF store = NULL
                THEN [w EXCEPT !.lib.store =
                        Append(@, [methid |-> methid, propdef |-> propdef, method |-> method])]
                ELSE [w EXCEPT !.tmp =
                        Append(@, [methid |-> methid, propdef |-> propdef, method |-> method])],
          ret |-> 1]

\* Freeing a store hands each of its methods to the destructor it was added with.
RECURSIVE ossl_method_store_free_tmp(_)
ossl_method_store_free_tmp(w) ==
    IF w.tmp = <<>> THEN w
    ELSE ossl_method_store_free_tmp(
             [evp_md_free(w, Head(w.tmp).method) EXCEPT !.tmp = Tail(w.tmp)])

ossl_method_store_cache_get(w, methid, prop_query) ==
    IF \E c \in w.lib.cache : c.methid = methid /\ c.query = prop_query
    THEN (CHOOSE c \in w.lib.cache : c.methid = methid /\ c.query = prop_query).method
    ELSE NULL

ossl_method_store_cache_set(w, methid, prop_query, method) ==
    [w EXCEPT !.lib.cache =
        {c \in @ : ~(c.methid = methid /\ c.query = prop_query)}
        \cup {[methid |-> methid, query |-> prop_query, method |-> method]}]

\* Changing the default properties empties the query cache.
ossl_method_store_set_global_properties(w, propq) ==
    IF ossl_parse_query(propq) = NULL THEN [w |-> w, ret |-> 0]
    ELSE [w |-> [w EXCEPT !.lib.global_properties = propq, !.lib.cache = {}],
          ret |-> 1]


(***************************************************************************)
(* evp_fetch.c: the callbacks handed to ossl_method_construct.  Each        *)
(* function is a chain of steps; a step takes what the step before it       *)
(* computed as a parameter.                                                 *)
(***************************************************************************)
get_method_ref(up, method) ==
    [w |-> up.w, ret |-> IF up.ret = 0 THEN NULL ELSE method]

get_method_found(w, method) ==
    IF method = NULL THEN [w |-> w, ret |-> NULL]
    ELSE get_method_ref(evp_md_up_ref(w, method), method)

get_method_by_id(w, store, methid, propquery) ==
    IF methid = Zero32 THEN [w |-> w, ret |-> NULL]
    ELSE get_method_found(w, ossl_method_store_fetch(w, store, methid, propquery))

get_method_by_name(w, store, operation_id, nameid, propquery) ==
    IF nameid = 0 THEN [w |-> w, ret |-> NULL]
    ELSE get_method_by_id(w, store, method_id(operation_id, nameid), propquery)

get_method_from_store(w, store, operation_id, name, propquery) ==
    get_method_by_name(w, store, operation_id,
                       ossl_namemap_name2num(w.lib.namemap, name), propquery)

put_method_ref(up, store, methid, propdef, method) ==
    IF up.ret = 0 THEN [w |-> up.w, ret |-> 0]
    ELSE ossl_method_store_add(up.w, store, methid, propdef, method)

put_method_by_id(w, store, method, methid, propdef) ==
    IF methid = Zero32 THEN [w |-> w, ret |-> 0]
    ELSE put_method_ref(evp_md_up_ref(w, method), store, methid, propdef, method)

put_method_by_name(n, store, method, operation_id, propdef) ==
    IF n.ret = 0 THEN [w |-> n.w, ret |-> 0]
    ELSE put_method_by_id(n.w, store, method, method_id(operation_id, n.ret), propdef)

put_method_in_store(w, store, method, operation_id, name, propdef) ==
    put_method_by_name(ossl_namemap_add(w, name), store, method, operation_id, propdef)

\* methdata->method_from_dispatch is evp_md_from_dispatch; the only
\* allocation failure here is a full heap.
construct_method(w, name, table, prov) ==
    evp_md_from_dispatch(w, name, table, prov, "none")

destruct_method(w, method) == evp_md_free(w, method)

(***************************************************************************)
(* ossl_algorithm_do_all and ossl_method_construct                         *)
(***************************************************************************)
\* The (provider, algorithm) entries of an operation, provider by provider.
RECURSIVE AlgorithmsFrom(_, _)
AlgorithmsFrom(provs, operation_id) ==
    IF provs = <<>> THEN <<>>
    ELSE [i \in 1 .. Len(query_operation(Head(provs), operation_id)) |->
             [prov |-> Head(provs), algo |-> query_operation(Head(provs), operation_id)[i]]]
         \o AlgorithmsFrom(Tail(provs), operation_id)

ossl_algorithm_do_all(operation_id) == AlgorithmsFrom(<<1, 2>>, operation_id)

\* One algorithm of a provider: when it has the name looked for, a record is
\* built and put in the temporary store; the builder's reference is dropped.
construct_this_done(p, method) ==
    [w |-> destruct_method(p.w, method), ok |-> p.ret = 1]

construct_this_put(c, algo, operation_id) ==
    IF c.ret = NULL THEN [w |-> c.w, ok |-> TRUE]
    ELSE construct_this_done(
             put_method_in_store(c.w, TmpStore, c.ret, operation_id,
                                 algo.algorithm_name, algo.property_definition),
             c.ret)

ossl_method_construct_this(w, prov, algo, operation_id, name) ==
    IF ~SameName(algo.algorithm_name, name) THEN [w |-> w, ok |-> TRUE]
    ELSE construct_this_put(
             construct_method(w, algo.algorithm_name, algo.implementation, prov),
             algo, operation_id)

RECURSIVE construct_all(_, _, _, _)
construct_rest(one, algs, operation_id, name) ==
    IF ~one.ok THEN one ELSE construct_all(one.w, algs, operation_id, name)

construct_all(w, algs, operation_id, name) ==
    IF algs = <<>> THEN [w |-> w, ok |-> TRUE]
    ELSE construct_rest(
             ossl_method_construct_this(w, Head(algs).prov, Head(algs).algo,
                                        operation_id, name),
             Tail(algs), operation_id, name)

PropdefInTmp(w, method) ==
    w.tmp[CHOOSE i \in 1 .. Len(w.tmp) : w.tmp[i].method = method].propdef

\* The caller whose promotion came second drops its record and returns
\* what the default store has.
construct_lost(g, method) ==
    [w |-> ossl_method_store_free_tmp(destruct_method(g.w, method)), ret |-> g.ret]

\* p is what put_method_in_store returned for the promotion of method.
construct_promoted(p, method, operation_id, name, propquery) ==
    IF p.ret = 0
       /\ get_method_from_store(p.w, NULL, operation_id, name, propquery).ret # NULL
    THEN construct_lost(get_method_from_store(p.w, NULL, operation_id, name, propquery),
                        method)
    ELSE [w |-> ossl_method_store_free_tmp(p.w), ret |-> method]

construct_from_tmp(t, operation_id, name, propquery) ==
    IF t.ret = NULL THEN [w |-> ossl_method_store_free_tmp(t.w), ret |-> NULL]
    ELSE construct_promoted(
             put_method_in_store(t.w, NULL, t.ret, operation_id, name,
                                 PropdefInTmp(t.w, t.ret)),
             t.ret, operation_id, name, propquery)

construct_from_providers(l, operation_id, name, propquery) ==
    IF ~l.ok THEN [w |-> ossl_method_store_free_tmp(l.w), ret |-> NULL]
    ELSE construct_from_tmp(
             get_method_from_store(l.w, TmpStore, operation_id, name, propquery),
             operation_id, name, propquery)

construct_from_store(g, operation_id, name, propquery) ==
    IF g.ret # NULL THEN [w |-> [g.w EXCEPT !.path = "store"], ret |-> g.ret]
    ELSE construct_from_providers(
             construct_all([g.w EXCEPT !.queried = Providers, !.path = "construct"],
                           ossl_algorithm_do_all(operation_id), operation_id, name),
             operation_id, name, propquery)

ossl_method_construct(w, operation_id, name, propquery) ==
    construct_from_store(get_method_from_store(w, NULL, operation_id, name, propquery),
                         operation_id, name, propquery)

(***************************************************************************)
(* evp_generic_fetch, EVP_set_default_properties, evp_generic_do_all       *)
(***************************************************************************)
\* A mutant: what the construction returned is cached, NULL included.
fetch_constructed_always_cached(c, operation_id, name, properties) ==
    [w |-> ossl_method_store_cache_set(
               c.w,
               method_id(operation_id, ossl_namemap_name2num(c.w.lib.namemap, name)),
               properties, c.ret),
     ret |-> c.ret]

fetch_constructed(c, operation_id, name, properties) ==
    IF c.ret = NULL THEN c
    ELSE [w |-> ossl_method_store_cache_set(
                    c.w,
                    method_id(operation_id, ossl_namemap_name2num(c.w.lib.namemap, name)),
                    properties, c.ret),
          ret |-> c.ret]

fetch_cached(w, operation_id, name, properties, method) ==
    IF method = NULL
    THEN fetch_constructed(ossl_method_construct(w, operation_id, name, properties),
                           operation_id, name, properties)
    ELSE [w |-> [evp_md_up_ref(w, method).w EXCEPT !.path = "cache"], ret |-> method]

\* A mutant: the cache is asked with the empty query whatever the caller's is.
fetch_by_id_any_query(w, operation_id, name, properties, nameid, methid) ==
    IF nameid # 0 /\ methid = Zero32 THEN [w |-> w, ret |-> NULL]
    ELSE fetch_cached(w, operation_id, name, properties,
                      IF nameid = 0 THEN NULL
                      ELSE ossl_method_store_cache_get(w, methid, QEmpty))

fetch_by_id(w, operation_id, name, properties, nameid, methid) ==
    IF nameid # 0 /\ methid = Zero32 THEN [w |-> w, ret |-> NULL]
    ELSE fetch_cached(w, operation_id, name, properties,
                      IF nameid = 0 THEN NULL
                      ELSE ossl_method_store_cache_get(w, methid, properties))

fetch_by_name(w, operation_id, name, properties, nameid) ==
    fetch_by_id(w, operation_id, name, properties, nameid,
                IF nameid = 0 THEN Zero32 ELSE method_id(operation_id, nameid))

\* A mutant: the test of operation_id is missing.
evp_generic_fetch_any_operation(w, operation_id, name, properties) ==
    fetch_by_name(w, operation_id, name, properties,
                  ossl_namemap_name2num(w.lib.namemap, name))

\* The library context of the model always has its store and its name map.
evp_generic_fetch(w, operation_id, name, properties) ==
    IF ~(operation_id > 0) THEN [w |-> w, ret |-> NULL]
    ELSE fetch_by_name(w, operation_id, name, properties,
                       ossl_namemap_name2num(w.lib.namemap, name))

EVP_set_default_properties(w, propq) ==
    ossl_method_store_set_global_properties(w, propq)

\* The calls of the functions of providers and of callbacks are noted in
\* the order in which they happen.
Log(w, e) == [w EXCEPT !.trace = Append(@, e)]

\* The application's callback, as collect_digests: it notes the record and,
\* for the entries of keep, takes a reference of its own (whose result it
\* does not look at).
user_fn_called(w, method, i) ==
    Log([w EXCEPT !.calls = Append(@, [i |-> i, method |-> method,
                                       name |-> w.md[method].name])],
        <<"user_fn", method>>)

user_fn(w, method, i, keep) ==
    IF i \in keep THEN evp_md_up_ref(user_fn_called(w, method, i), method).w
    ELSE user_fn_called(w, method, i)

do_one_made(m, i) ==
    Log([m.w EXCEPT !.made = Append(@, [i |-> i, method |-> m.ret])],
        <<"new_method", m.ret>>)

do_one_free(w, method) == Log(evp_md_free(w, method), <<"free_method", method>>)

\* A mutant: the record is released before it is handed to user_fn.
do_one_method_released_first(w, method, i, keep) ==
    IF method = NULL THEN w
    ELSE user_fn(do_one_free(w, method), method, i, keep)

\* A mutant: an algorithm whose name was already handed over is passed by.
do_one_method_merging_names(w, method, i, keep) ==
    IF method = NULL THEN w
    ELSE IF \E c \in 1 .. Len(w.calls) : w.calls[c].name = w.md[method].name
    THEN do_one_free(w, method)
    ELSE do_one_free(user_fn(w, method, i, keep), method)

do_one_method(w, method, i, keep) ==
    IF method = NULL THEN w
    ELSE do_one_free(user_fn(w, method, i, keep), method)

do_one_new(m, i, keep) == do_one_method(do_one_made(m, i), m.ret, i, keep)

\* i is the position of the entry in what ossl_algorithm_do_all goes through.
do_one(w, provider, algo, i, keep) ==
    do_one_new(evp_md_from_dispatch(w, algo.algorithm_name, algo.implementation,
                                    provider, "none"),
               i, keep)

RECURSIVE do_all_from(_, _, _, _)
do_all_from(w, algs, i, keep) ==
    IF i > Len(algs) THEN w
    ELSE do_all_from(do_one(w, algs[i].prov, algs[i].algo, i, keep), algs, i + 1, keep)

evp_generic_do_all(w, operation_id, keep) ==
    do_all_from([w EXCEPT !.queried = Providers],
                ossl_algorithm_do_all(operation_id), 1, keep)

(***************************************************************************)
(* digest.c: digest contexts.  A pointer to an EVP_MD is the address of a  *)
(* record on the heap or, above MaxMd, of one of the library's static      *)
(* legacy EVP_MD structures, which have no provider.                       *)
(***************************************************************************)
LegacyNames == <<"A", "B">>
LegacyMds == {MaxMd + i : i \in 1 .. Len(LegacyNames)}
IsLegacy(type) == type > MaxMd
\* OBJ_nid2sn(type->type) of a legacy EVP_MD, and OBJ_sn2nid of a name.
OBJ_nid2sn(type) == LegacyNames[type - MaxMd]
OBJ_sn2nid(name) ==
    IF \E i \in 1 .. Len(LegacyNames) : LegacyNames[i] = name
    THEN CHOOSE i \in 1 .. Len(LegacyNames) : LegacyNames[i] = name
    ELSE NID_undef

Undefined(w) == [w EXCEPT !.ub = TRUE]

\* The provider's functions behind the slots of a record.
AllocProvCtx(w) ==
    LET free == {p \in ProvCtxAddrs :
                    ~w.pc[p].live /\ \A c \in CtxAddrs : w.ctx[c].provctx # p}
    IN IF free = {} THEN NULL ELSE CHOOSE p \in free : \A q \in free : p <= q

\* A provider function that is handed NULL, or a context that was freed,
\* reads through a pointer it must not read through.
BadProvCtx(w, p) == IF p = NULL THEN TRUE ELSE ~w.pc[p].live

\* The newctx slot of the record m.
newctx_at(w, p, m) ==
    IF p = NULL THEN [w |-> Log(w, <<"newctx", NULL>>), ret |-> NULL]
    ELSE [w |-> Log([w EXCEPT !.pc[p] = [NewProvCtx EXCEPT !.impl = m]], <<"newctx", p>>),
          ret |-> p]

newctx(w, m) == newctx_at(w, AllocProvCtx(w), m)

freectx(w, p) ==
    IF BadProvCtx(w, p) THEN Undefined(Log(w, <<"freectx", p>>))
    ELSE Log([w EXCEPT !.pc[p] = FreeProvCtx], <<"freectx", p>>)

dinit(w, p) ==
    IF BadProvCtx(w, p) THEN Undefined(Log(w, <<"dinit", p>>))
    ELSE Log([w EXCEPT !.pc[p].state = "init", !.pc[p].data = 0], <<"dinit", p>>)

\* update absorbs count bytes on a context that init has prepared, and
\* fails on any other.
dupdate(w, p, count) ==
    IF BadProvCtx(w, p) THEN [w |-> Undefined(Log(w, <<"dupdate", p>>)), ret |-> 0]
    ELSE IF w.pc[p].state # "init" THEN [w |-> Log(w, <<"dupdate", p>>), ret |-> 0]
    ELSE [w |-> Log([w EXCEPT !.pc[p].data = @ + count], <<"dupdate", p>>), ret |-> 1]

\* NoOutput stands for an output buffer that was not written; the digest
\* final writes is the digest of the bytes absorbed, named by their number.
NoOutput == 0 - 1

dfinal(w, p) ==
    IF BadProvCtx(w, p)
    THEN [w |-> Undefined(Log(w, <<"dfinal", p>>)), ret |-> 0, out |-> NoOutput]
    ELSE IF w.pc[p].state # "init"
    THEN [w |-> Log(w, <<"dfinal", p>>), ret |-> 0, out |-> NoOutput]
    ELSE [w |-> Log([w EXCEPT !.pc[p].state = "final"], <<"dfinal", p>>),
          ret |-> 1, out |-> w.pc[p].data]

\* dupctx returns a new context that holds a copy of the state, or NULL when
\* there is no memory for one.
\* The dupctx slot of the record m.
dupctx_at(w, p, q, m) ==
    IF q = NULL THEN [w |-> Log(w, <<"dupctx", p>>), ret |-> NULL]
    ELSE [w |-> Log([w EXCEPT !.pc[q] = [w.pc[p] EXCEPT !.impl = m]], <<"dupctx", p>>),
          ret |-> q]

dupctx(w, p, m) ==
    IF BadProvCtx(w, p) THEN [w |-> Undefined(Log(w, <<"dupctx", p>>)), ret |-> NULL]
    ELSE dupctx_at(w, p, AllocProvCtx(w), m)

\* if (ctx->digest->freectx != NULL) ctx->digest->freectx(ctx->provctx);
\* ctx->provctx = NULL;
md_ctx_freectx(w, c) ==
    IF ~w.md[w.ctx[c].digest].live THEN Undefined(w)
    ELSE [(IF w.md[w.ctx[c].digest].freectx # NULL
           THEN freectx(w, w.ctx[c].provctx) ELSE w)
          EXCEPT !.ctx[c].provctx = NULL]

EVP_MD_CTX_set_flags(w, c, flags) == [w EXCEPT !.ctx[c].flags = @ \cup flags]
EVP_MD_CTX_clear_flags(w, c, flags) == [w EXCEPT !.ctx[c].flags = @ \ flags]

\* The legacy end of EVP_MD_CTX_reset, for a context that has no engine, no
\* pctx and no md_data: OPENSSL_cleanse(ctx, sizeof(*ctx)).
md_ctx_reset_legacy(w, c) == [w EXCEPT !.ctx[c] = ZeroCtx]

md_ctx_reset_provided(w, c) ==
    IF w.ctx[c].provctx = NULL THEN w
    ELSE EVP_MD_CTX_set_flags(md_ctx_freectx(w, c), c, {EVP_MD_CTX_FLAG_CLEANED})

EVP_MD_CTX_reset(w, c) ==
    IF c = NULL THEN w
    ELSE IF w.ctx[c].digest = NULL THEN md_ctx_reset_legacy(w, c)
    ELSE IF ~w.md[w.ctx[c].digest].live THEN Undefined(w)
    ELSE IF w.md[w.ctx[c].digest].prov = NULL THEN md_ctx_reset_legacy(w, c)
    ELSE md_ctx_reset_provided(w, c)

AllocCtx(w) ==
    IF \A c \in CtxAddrs : w.ctx[c].live THEN NULL
    ELSE CHOOSE c \in CtxAddrs :
             ~w.ctx[c].live /\ \A d \in CtxAddrs : ~w.ctx[d].live => c <= d

md_ctx_new_at(w, c) ==
    IF c = NULL THEN [w |-> w, ret |-> NULL]
    ELSE [w |-> [w EXCEPT !.ctx[c] = ZeroCtx], ret |-> c]

EVP_MD_CTX_new(w) == md_ctx_new_at(w, AllocCtx(w))

OPENSSL_free_ctx(w, c) == Log([w EXCEPT !.ctx[c] = FreeCtx], <<"OPENSSL_free", c>>)

\* EVP_MD_meth_free(ctx->fetched_digest); a field of a freed context must
\* not be read.
md_ctx_release(w, c) ==
    IF ~w.ctx[c].live THEN Undefined(w)
    ELSE Log(EVP_MD_meth_free(w, w.ctx[c].fetched_digest),
             <<"EVP_MD_meth_free", w.ctx[c].fetched_digest>>)

md_ctx_free_provided(w, c) == OPENSSL_free_ctx(md_ctx_release(w, c), c)

EVP_MD_CTX_free(w, c) ==
    IF c = NULL THEN w
    ELSE IF w.ctx[c].digest = NULL THEN OPENSSL_free_ctx(EVP_MD_CTX_reset(w, c), c)
    ELSE IF ~w.md[w.ctx[c].digest].live THEN Undefined(w)
    ELSE IF w.md[w.ctx[c].digest].prov = NULL
    THEN OPENSSL_free_ctx(EVP_MD_CTX_reset(w, c), c)
    ELSE md_ctx_free_provided(EVP_MD_CTX_reset(w, c), c)

md_fetch_type(r, algorithm) ==
    IF r.ret = NULL THEN r
    ELSE [w |-> [Deref(r.w, r.ret) EXCEPT !.md[r.ret].type = OBJ_sn2nid(algorithm)],
          ret |-> r.ret]

EVP_MD_fetch(w, algorithm, properties) ==
    md_fetch_type(evp_generic_fetch(w, OSSL_OP_DIGEST, algorithm, properties), algorithm)

\* EVP_DigestInit_ex of a context without engine or pctx, impl == NULL and
\* type != NULL, step by step.
digest_init_dinit(w, c) ==
    IF w.md[w.ctx[c].digest].dinit = NULL THEN [w |-> w, ret |-> 0]
    ELSE [w |-> dinit(w, w.ctx[c].provctx), ret |-> 1]

\* A mutant: init of the provider is not called after newctx.
digest_init_newctx_done_without_init(n, c) ==
    IF n.ret = NULL THEN [w |-> n.w, ret |-> 0]
    ELSE [w |-> [n.w EXCEPT !.ctx[c].provctx = n.ret], ret |-> 1]

digest_init_newctx_done(n, c) ==
    IF n.ret = NULL THEN [w |-> n.w, ret |-> 0]
    ELSE digest_init_dinit([n.w EXCEPT !.ctx[c].provctx = n.ret], c)

\* A call through a slot that is NULL is undefined.
digest_init_newctx(w, c) ==
    IF w.ctx[c].provctx # NULL THEN digest_init_dinit(w, c)
    ELSE IF w.md[w.ctx[c].digest].newctx = NULL THEN [w |-> Undefined(w), ret |-> 0]
    ELSE digest_init_newctx_done(newctx(w, w.ctx[c].digest), c)

\* The slots are read from type: a record the implicit fetch was handed
\* without a reference may have been released with fetched_digest.
digest_init_bind(w, c, type) ==
    IF ~w.md[type].live THEN [w |-> Undefined(w), ret |-> 0]
    ELSE digest_init_newctx(
             [(IF w.ctx[c].provctx # NULL /\ w.ctx[c].digest # NULL /\ w.ctx[c].digest # type
               THEN md_ctx_freectx(w, c) ELSE w)
              EXCEPT !.ctx[c].digest = type],
             c)

digest_init_fetched(r, c) ==
    IF r.ret = NULL THEN [w |-> r.w, ret |-> 0]
    ELSE digest_init_bind(
             [EVP_MD_meth_free(r.w, r.w.ctx[c].fetched_digest)
              EXCEPT !.ctx[c].fetched_digest = r.ret],
             c, r.ret)

\* if (type->prov == NULL) reads through type, NULL or not.
digest_init_type(w, c, type) ==
    IF w.ctx[c].digest # NULL /\ ~w.md[w.ctx[c].digest].live
    THEN [w |-> Undefined(w), ret |-> 0]
    ELSE IF type = NULL THEN [w |-> Undefined(w), ret |-> 0]
    ELSE IF IsLegacy(type)
    THEN digest_init_fetched(EVP_MD_fetch(w, OBJ_nid2sn(type), QEmpty), c)
    ELSE IF ~w.md[type].live THEN [w |-> Undefined(w), ret |-> 0]
    ELSE digest_init_bind(w, c, type)

EVP_DigestInit_ex(w, c, type) ==
    digest_init_type(
        [EVP_MD_CTX_clear_flags(w, c, {EVP_MD_CTX_FLAG_CLEANED})
         EXCEPT !.ctx[c].reqdigest = IF type # NULL THEN type ELSE @],
        c, type)

\* EVP_DigestUpdate.  A context that took no legacy initialisation has no
\* update function: ctx->update is the NULL that OPENSSL_zalloc left there.
digest_update_legacy(w, c) ==
    [w |-> Undefined(Log(w, <<"ctx->update", NULL>>)), ret |-> 0]

digest_update_provided(w, c, count) ==
    IF w.md[w.ctx[c].digest].dupdate = NULL THEN [w |-> w, ret |-> 0]
    ELSE dupdate(w, w.ctx[c].provctx, count)

EVP_DigestUpdate(w, c, count) ==
    IF count = 0 THEN [w |-> w, ret |-> 1]
    ELSE IF w.ctx[c].digest = NULL THEN digest_update_legacy(w, c)
    ELSE IF ~w.md[w.ctx[c].digest].live THEN [w |-> Undefined(w), ret |-> 0]
    ELSE IF w.md[w.ctx[c].digest].prov = NULL THEN digest_update_legacy(w, c)
    ELSE digest_update_provided(w, c, count)

\* EVP_DigestFinal_ex with isize != NULL; the sizes of the model fit an
\* unsigned int.  The legacy end calls ctx->digest->final.
digest_final_legacy(w, c) ==
    [w |-> Undefined(Log(w, <<"digest->final", NULL>>)), ret |-> 0, out |-> NoOutput]

digest_final_reset(r, c) ==
    [w |-> EVP_MD_CTX_reset(r.w, c), ret |-> r.ret, out |-> r.out]

digest_final_provided(w, c) ==
    IF w.md[w.ctx[c].digest].dfinal = NULL
    THEN [w |-> w, ret |-> 0, out |-> NoOutput]
    ELSE digest_final_reset(dfinal(w, w.ctx[c].provctx), c)

EVP_DigestFinal_ex(w, c) ==
    IF w.ctx[c].digest = NULL THEN digest_final_legacy(w, c)
    ELSE IF ~w.md[w.ctx[c].digest].live
    THEN [w |-> Undefined(w), ret |-> 0, out |-> NoOutput]
    ELSE IF w.md[w.ctx[c].digest].prov = NULL THEN digest_final_legacy(w, c)
    ELSE digest_final_provided(w, c)

\* EVP_MD_CTX_copy_ex of contexts without pctx, step by step.
EVP_MD_CTX_FLAG_KEEP_PKEY_CTX == "EVP_MD_CTX_FLAG_KEEP_PKEY_CTX"

md_ctx_copy_dup_done(r, out) ==
    IF r.ret = NULL THEN [w |-> r.w, ret |-> 0]
    ELSE [w |-> EVP_MD_CTX_clear_flags([r.w EXCEPT !.ctx[out].provctx = r.ret],
                                       out, {EVP_MD_CTX_FLAG_KEEP_PKEY_CTX}),
          ret |-> 1]

md_ctx_copy_dup(w, out, in) ==
    IF ~w.md[w.ctx[in].digest].live THEN [w |-> Undefined(w), ret |-> 0]
    ELSE md_ctx_copy_dup_done(dupctx(w, w.ctx[in].provctx, w.ctx[in].digest), out)

\* if (in->fetched_digest != NULL) EVP_MD_up_ref(in->fetched_digest);
\* The result of EVP_MD_up_ref is not looked at.
md_ctx_copy_up_ref_done(r, m, out, in) ==
    md_ctx_copy_dup(Log(r.w, <<"EVP_MD_up_ref", m, r.ret>>), out, in)

md_ctx_copy_up_ref(w, out, in) ==
    IF w.ctx[in].fetched_digest # NULL
    THEN md_ctx_copy_up_ref_done(evp_md_up_ref(w, w.ctx[in].fetched_digest),
                                 w.ctx[in].fetched_digest, out, in)
    ELSE md_ctx_copy_dup(w, out, in)

\* *out = *in; out->pctx = NULL; out->provctx = NULL;
md_ctx_copy_assign(w, out, in) ==
    md_ctx_copy_up_ref([w EXCEPT !.ctx[out] = [w.ctx[in] EXCEPT !.provctx = NULL]],
                       out, in)

md_ctx_copy_release(w, out, in) ==
    md_ctx_copy_assign(EVP_MD_meth_free(w, w.ctx[out].fetched_digest), out, in)

md_ctx_copy_provided(w, out, in) ==
    IF w.md[w.ctx[in].digest].dupctx = NULL THEN [w |-> w, ret |-> 0]
    ELSE md_ctx_copy_release(EVP_MD_CTX_reset(w, out), out, in)

\* The legacy end, for contexts without engine, md_data and copy function.
md_ctx_copy_legacy(w, out, in) ==
    [w |-> [EVP_MD_CTX_reset(w, out) EXCEPT !.ctx[out] = w.ctx[in]], ret |-> 1]

md_ctx_copy_in(w, out, in) ==
    IF w.ctx[in].digest = NULL THEN [w |-> w, ret |-> 0]
    ELSE IF ~w.md[w.ctx[in].digest].live THEN [w |-> Undefined(w), ret |-> 0]
    ELSE IF w.md[w.ctx[in].digest].prov = NULL THEN md_ctx_copy_legacy(w, out, in)
    ELSE md_ctx_copy_provided(w, out, in)

EVP_MD_CTX_copy_ex(w, out, in) ==
    IF in = NULL THEN [w |-> w, ret |-> 0] ELSE md_ctx_copy_in(w, out, in)

\* EVP_Digest with impl == NULL.  Each step takes the result of the one
\* before it: && goes on while the result is not 0.
EVP_MD_CTX_FLAG_ONESHOT == "EVP_MD_CTX_FLAG_ONESHOT"

\* EVP_MD_CTX_free(ctx); return ret;
digest_oneshot_free(w, c, ret, out) ==
    [w |-> EVP_MD_CTX_free(w, c), ret |-> ret, out |-> out]

digest_oneshot_final(f, c) ==
    digest_oneshot_free(Log(f.w, <<"EVP_DigestFinal_ex", f.ret>>), c, f.ret, f.out)

digest_oneshot_updated(w, c, ret) ==
    IF ret = 0 THEN digest_oneshot_free(w, c, 0, NoOutput)
    ELSE digest_oneshot_final(EVP_DigestFinal_ex(w, c), c)

digest_oneshot_update(u, c) ==
    digest_oneshot_updated(Log(u.w, <<"EVP_DigestUpdate", u.ret>>), c, u.ret)

digest_oneshot_inited(w, c, count, ret) ==
    IF ret = 0 THEN digest_oneshot_free(w, c, 0, NoOutput)
    ELSE digest_oneshot_update(EVP_DigestUpdate(w, c, count), c)

digest_oneshot_init(i, c, count) ==
    digest_oneshot_inited(Log(i.w, <<"EVP_DigestInit_ex", i.ret>>), c, count, i.ret)

digest_oneshot_ctx(n, count, type) ==
    IF n.ret = NULL THEN [w |-> n.w, ret |-> 0, out |-> NoOutput]
    ELSE digest_oneshot_init(
             EVP_DigestInit_ex(EVP_MD_CTX_set_flags(n.w, n.ret, {EVP_MD_CTX_FLAG_ONESHOT}),
                               n.ret, type),
             n.ret, count)

EVP_Digest(w, count, type) == digest_oneshot_ctx(EVP_MD_CTX_new(w), count, type)

(***************************************************************************)
(* Spec: an application that fetches digests, releases them, changes the   *)
(* default properties and lists the digests of the providers.              *)
(***************************************************************************)
FetchOps == {0 - 1, 0, OSSL_OP_DIGEST}
FetchNames == {"A", "C"}
Queries == {QEmpty, QFipsYes, QFipsNo}
RECURSIVE Sum(_, _)
Sum(f, S) == IF S = {} THEN 0 ELSE LET x == CHOOSE x \in S : TRUE IN f[x] + Sum(f, S \ {x})
HeldTotal == Sum(held, MdAddrs)

Init ==
    /\ mid = NoCall
    /\ fns = <<>>
    /\ fd = NoCall
    /\ InitLib

FetchOf(ops, names) ==
    /\ ~ub
    /\ HeldTotal < MaxHeld
    /\ \E operation_id \in ops, name \in names, properties \in Queries, env \in Envs :
         \E r \in {evp_generic_fetch(World(env), operation_id, name, properties)} :
            /\ md' = r.w.md
            /\ provider_refcnt' = r.w.prov
            /\ libctx' = r.w.lib
            /\ ub' = r.w.ub
            /\ faults' = FaultsAfter(env)
            /\ held' = IF r.ret = NULL THEN held ELSE [held EXCEPT ![r.ret] = @ + 1]
            /\ last_call' = [fn |-> "fetch", operation_id |-> operation_id,
                             name |-> name, properties |-> properties, env |-> env,
                             defaults |-> libctx.global_properties,
                             ret |-> r.ret, path |-> r.w.path, queried |-> r.w.queried,
                             changed |-> <<r.w.md, r.w.prov, r.w.lib>>
                                         # <<md, provider_refcnt, libctx>>]
    /\ UNCHANGED pureVars
    /\ UNCHANGED ctxVars

Fetch == FetchOf(FetchOps, FetchNames)

\* The application gives back one of the references it holds.
Free ==
    /\ ~ub
    /\ \E a \in MdAddrs :
         /\ held[a] > 0
         /\ \E w \in {evp_md_free(World(EnvOk), a)} :
               /\ md' = w.md
               /\ provider_refcnt' = w.prov
               /\ ub' = w.ub
         /\ held' = [held EXCEPT ![a] = @ - 1]
         /\ last_call' = [fn |-> "free", method |-> a]
    /\ UNCHANGED <<libctx, faults>>
    /\ UNCHANGED pureVars
    /\ UNCHANGED ctxVars

SetDefaultProperties ==
    /\ ~ub
    /\ \E propq \in Queries \cup {Malformed} :
         \E r \in {EVP_set_default_properties(World(EnvOk), propq)} :
            /\ libctx' = r.w.lib
            /\ last_call' = [fn |-> "set_default_properties", propq |-> propq,
                             ret |-> r.ret]
    /\ UNCHANGED <<md, provider_refcnt, held, ub, faults>>
    /\ UNCHANGED pureVars
    /\ UNCHANGED ctxVars

DoAll ==
    /\ ~ub
    /\ \E env \in {e \in Envs : e.add_ok},
          keep \in SUBSET (1 .. Len(ossl_algorithm_do_all(OSSL_OP_DIGEST))) :
         /\ Cardinality(keep) + HeldTotal <= MaxHeld
         /\ \E w \in {evp_generic_do_all(World(env), OSSL_OP_DIGEST, keep)} :
            LET kept == {w.calls[c].method :
                           c \in {c \in 1 .. Len(w.calls) : w.calls[c].i \in keep}}
            IN /\ md' = w.md
               /\ provider_refcnt' = w.prov
               /\ ub' = w.ub
               /\ faults' = FaultsAfter(env)
               /\ held' = [a \in MdAddrs |-> IF a \in kept THEN held[a] + 1 ELSE held[a]]
               /\ last_call' = [fn |-> "do_all", operation_id |-> OSSL_OP_DIGEST,
                                keep |-> keep, env |-> env,
                                made |-> w.made, calls |-> w.calls,
                                trace |-> w.trace,
                                before |-> [prov |-> provider_refcnt,
                                            live |-> {a \in MdAddrs : md[a].live}]]
    /\ UNCHANGED <<libctx>>
    /\ UNCHANGED pureVars
    /\ UNCHANGED ctxVars

Next == Fetch \/ Free \/ SetDefaultProperties

Spec == Init /\ [][Next]_vars

\* SpecDoAll: an application that lists the digests and releases the
\* records it kept.
NextDoAll == DoAll \/ Free

SpecDoAll == Init /\ [][NextDoAll]_vars

\* SpecRetry: an application that asks for algorithms that one provider has
\* under one property definition, or that no provider has in a usable form.
RetryNames == {"B", "C"}

FetchRetry == FetchOf({OSSL_OP_DIGEST}, RetryNames)

NextRetry == FetchRetry \/ Free \/ SetDefaultProperties

SpecRetry == Init /\ [][NextRetry]_vars

(***************************************************************************)
(* SpecStore: put_method_in_store applied to records the adapter has       *)
(* built, and the removal of entries from the default store.               *)
(***************************************************************************)
MaxStore == 2

\* ossl_method_store_remove: the first entry of the method under that
\* identity leaves the store and the method goes to its destructor.
ossl_method_store_remove(w, methid, method) ==
    IF \E i \in 1 .. Len(w.lib.store) :
           w.lib.store[i].methid = methid /\ w.lib.store[i].method = method
    THEN [w |-> evp_md_free(
                    [w EXCEPT !.lib.store =
                        SubSeq(@, 1, (CHOOSE i \in 1 .. Len(@) :
                                        /\ @[i].methid = methid /\ @[i].method = method
                                        /\ \A j \in 1 .. i - 1 :
                                              ~(@[j].methid = methid /\ @[j].method = method)) - 1)
                        \o SubSeq(@, (CHOOSE i \in 1 .. Len(@) :
                                        /\ @[i].methid = methid /\ @[i].method = method
                                        /\ \A j \in 1 .. i - 1 :
                                              ~(@[j].methid = methid /\ @[j].method = method)) + 1,
                                  Len(@))],
                    method),
          ret |-> 1]
    ELSE [w |-> w, ret |-> 0]

\* A caller of the adapter keeps the record it was given.
StoreBuild ==
    /\ ~ub
    /\ HeldTotal < MaxHeld
    /\ \E prov \in Providers :
         \E i \in 1 .. Len(query_operation(prov, OSSL_OP_DIGEST)) :
          \E r \in {construct_method(World(EnvOk),
                                     query_operation(prov, OSSL_OP_DIGEST)[i].algorithm_name,
                                     query_operation(prov, OSSL_OP_DIGEST)[i].implementation,
                                     prov)} :
            /\ md' = r.w.md
            /\ provider_refcnt' = r.w.prov
            /\ held' = IF r.ret = NULL THEN held ELSE [held EXCEPT ![r.ret] = @ + 1]
            /\ last_call' = [fn |-> "construct_method", prov |-> prov, ret |-> r.ret]
    /\ UNCHANGED <<libctx, ub, faults>>
    /\ UNCHANGED pureVars
    /\ UNCHANGED ctxVars

StorePut ==
    /\ ~ub
    /\ Len(libctx.store) < MaxStore
    /\ \E method \in MdAddrs, operation_id \in {0, OSSL_OP_DIGEST}, env \in Envs :
         /\ held[method] > 0
         /\ md[method].refcnt <= MaxStore
         /\ \E r \in {put_method_in_store(World(env), NULL, method, operation_id,
                                           md[method].name, QEmpty)} :
            /\ md' = r.w.md
            /\ libctx' = r.w.lib
            /\ ub' = r.w.ub
            /\ faults' = FaultsAfter(env)
            /\ last_call' = [fn |-> "put_method_in_store", method |-> method,
                             operation_id |-> operation_id, env |-> env, ret |-> r.ret,
                             refcnt_before |-> md[method].refcnt]
    /\ UNCHANGED <<provider_refcnt, held>>
    /\ UNCHANGED pureVars
    /\ UNCHANGED ctxVars

StoreRemove ==
    /\ ~ub
    /\ \E i \in 1 .. Len(libctx.store) :
         \E r \in {ossl_method_store_remove(World(EnvOk), libctx.store[i].methid,
                                            libctx.store[i].method)} :
            /\ md' = r.w.md
            /\ provider_refcnt' = r.w.prov
            /\ libctx' = r.w.lib
            /\ ub' = r.w.ub
            /\ last_call' = [fn |-> "ossl_method_store_remove",
                             method |-> libctx.store[i].method, ret |-> r.ret,
                             after |-> IF last_call.fn = "put_method_in_store"
                                       THEN last_call ELSE NoLastCall]
    /\ UNCHANGED <<held, faults>>
    /\ UNCHANGED pureVars
    /\ UNCHANGED ctxVars

NextStore == StoreBuild \/ StorePut \/ StoreRemove \/ Free

SpecStore == Init /\ [][NextStore]_vars

(***************************************************************************)
(* SpecCtx: an application that fetches digests and uses them, or the      *)
(* legacy EVP_MDs, in digest contexts.                                     *)
(***************************************************************************)
WorldStep(w) ==
    /\ md' = w.md
    /\ provider_refcnt' = w.prov
    /\ libctx' = w.lib
    /\ ub' = w.ub
    /\ ctxs' = w.ctx
    /\ provctxs' = w.pc

LiveCtxs == {c \in CtxAddrs : ctxs[c].live}

\* Whether the context is bound to an implementation of a provider.
Provided(c) ==
    /\ ctxs[c].digest # NULL
    /\ md[ctxs[c].digest].live
    /\ md[ctxs[c].digest].prov # NULL

MdFetchOf(names) ==
    /\ ~ub
    /\ HeldTotal < MaxHeld
    /\ \E algorithm \in names :
         \E r \in {EVP_MD_fetch(World(EnvOk), algorithm, QEmpty)} :
            /\ WorldStep(r.w)
            /\ held' = IF r.ret = NULL THEN held ELSE [held EXCEPT ![r.ret] = @ + 1]
            /\ last_call' = [fn |-> "md_fetch", algorithm |-> algorithm, ret |-> r.ret]
    /\ UNCHANGED <<faults, pureVars>>

MdFetch == MdFetchOf({LegacyNames[i] : i \in 1 .. Len(LegacyNames)})

\* The application lists the digests and keeps one of them, as list_digests.
Collect ==
    /\ ~ub
    /\ HeldTotal < MaxHeld
    /\ \E i \in 1 .. Len(ossl_algorithm_do_all(OSSL_OP_DIGEST)) :
         \E w \in {evp_generic_do_all(World(EnvOk), OSSL_OP_DIGEST, {i})} :
            /\ w.calls # <<>>
            /\ WorldStep(w)
            /\ held' = [a \in MdAddrs |->
                          IF \E c \in 1 .. Len(w.calls) :
                                 w.calls[c].i = i /\ w.calls[c].method = a
                          THEN held[a] + 1 ELSE held[a]]
            /\ last_call' = [fn |-> "collect", keep |-> i]
    /\ UNCHANGED <<faults, pureVars>>

CtxNew ==
    /\ ~ub
    /\ \E r \in {EVP_MD_CTX_new(World(EnvOk))} :
            /\ WorldStep(r.w)
            /\ last_call' = [fn |-> "ctx_new", ret |-> r.ret]
    /\ UNCHANGED <<held, faults, pureVars>>

CtxReset ==
    /\ ~ub
    /\ \E c \in LiveCtxs :
         \E w \in {EVP_MD_CTX_reset(World(EnvOk), c)} :
            /\ WorldStep(w)
            /\ last_call' = [fn |-> "ctx_reset", ctx |-> c, before |-> ctxs[c],
                             provided |-> Provided(c),
                             refcnt |-> IF Provided(c) THEN md[ctxs[c].digest].refcnt
                                        ELSE 0]
    /\ UNCHANGED <<held, faults, pureVars>>

CtxFree ==
    /\ ~ub
    /\ \E c \in LiveCtxs :
         \E w \in {EVP_MD_CTX_free(World(EnvOk), c)} :
            /\ WorldStep(w)
            /\ last_call' = [fn |-> "ctx_free", ctx |-> c, before |-> ctxs[c],
                             trace |-> w.trace]
    /\ UNCHANGED <<held, faults, pureVars>>

\* type is a legacy EVP_MD or a record the application fetched and holds.
DigestInit ==
    /\ ~ub
    /\ \E c \in LiveCtxs, type \in LegacyMds \cup {a \in MdAddrs : held[a] > 0} :
         \E r \in {EVP_DigestInit_ex(World(EnvOk), c, type)} :
            /\ WorldStep(r.w)
            /\ last_call' = [fn |-> "digest_init", ctx |-> c, type |-> type,
                             ret |-> r.ret]
    /\ UNCHANGED <<held, faults, pureVars>>

\* The application of SpecCtx works with one context at a time.
CtxNewOne == LiveCtxs = {} /\ CtxNew

NextCtx == MdFetch \/ Collect \/ Free \/ CtxNewOne \/ CtxReset \/ CtxFree \/ DigestInit

SpecCtx == Init /\ [][NextCtx]_vars

(***************************************************************************)
(* SpecRace: two threads call evp_generic_fetch for the digest "A".  A     *)
(* thread takes one step for each access to what the threads share: the    *)
(* look in the query cache, the fetch from the default store, the          *)
(* construction with its promotion into the default store, and the entry   *)
(* in the query cache.  The store and the name map take their own locks;   *)
(* evp_generic_fetch takes none.  The temporary store belongs to the       *)
(* thread.                                                                 *)
(***************************************************************************)
RaceName == "A"
RaceQueries == {QEmpty, QFipsYes}
InFlight == {t \in Threads : threads[t].pc \notin {"idle", "done"}}

\* What the query cache has for the call, NULL when the name is not known.
race_cache_get(w, operation_id, name, properties) ==
    IF ossl_namemap_name2num(w.lib.namemap, name) = 0 THEN NULL
    ELSE ossl_method_store_cache_get(
             w, method_id(operation_id, ossl_namemap_name2num(w.lib.namemap, name)),
             properties)

RaceReturned(t, properties, missed, ret) ==
    /\ threads' = [threads EXCEPT ![t] = [pc |-> "done", properties |-> properties,
                                          missed |-> missed, ret |-> ret]]
    /\ held' = IF ret = NULL THEN held ELSE [held EXCEPT ![ret] = @ + 1]

\* Lines 165-192: the call begins and looks into the query cache; on a hit
\* it takes its reference and returns.
RaceCall(t) ==
    /\ ~ub
    /\ threads[t].pc = "idle"
    /\ HeldTotal + Cardinality(InFlight) < MaxHeld
    /\ \E properties \in RaceQueries :
         IF race_cache_get(World(EnvOk), OSSL_OP_DIGEST, RaceName, properties) = NULL
         THEN /\ threads' = [threads EXCEPT ![t] = [pc |-> "miss",
                                                    properties |-> properties]]
              /\ UNCHANGED <<md, provider_refcnt, libctx, ub, ctxVars, held>>
         ELSE \E r \in {fetch_cached(World(EnvOk), OSSL_OP_DIGEST, RaceName, properties,
                                      race_cache_get(World(EnvOk), OSSL_OP_DIGEST,
                                                     RaceName, properties))} :
                /\ WorldStep(r.w)
                /\ RaceReturned(t, properties, FALSE, r.ret)
    /\ UNCHANGED <<last_call, faults, mid, fns, fd, dhVars>>

\* ossl_method_construct begins with a fetch from the default store.
RaceGet(t) ==
    /\ ~ub
    /\ threads[t].pc = "miss"
    /\ \E g \in {get_method_from_store(World(EnvOk), NULL, OSSL_OP_DIGEST, RaceName,
                                        threads[t].properties)} :
         /\ WorldStep(g.w)
         /\ threads' = [threads EXCEPT ![t] = [pc |-> "got",
                                               properties |-> threads[t].properties,
                                               method |-> g.ret]]
    /\ UNCHANGED <<held, last_call, faults, mid, fns, fd, dhVars>>

\* With nothing from the default store, the thread builds the records in
\* its temporary store and promotes the one it fetches from there.
RaceConstruct(t) ==
    /\ ~ub
    /\ threads[t].pc = "got"
    /\ \E c \in {construct_from_store([w |-> World(EnvOk), ret |-> threads[t].method],
                                       OSSL_OP_DIGEST, RaceName, threads[t].properties)} :
         /\ WorldStep(c.w)
         /\ threads' = [threads EXCEPT ![t] = [pc |-> "constructed",
                                               properties |-> threads[t].properties,
                                               method |-> c.ret]]
    /\ UNCHANGED <<held, last_call, faults, mid, fns, fd, dhVars>>

\* Lines 210-227: what was constructed is entered in the query cache and
\* returned.
RaceReturn(t) ==
    /\ ~ub
    /\ threads[t].pc = "constructed"
    /\ \E r \in {fetch_constructed([w |-> World(EnvOk), ret |-> threads[t].method],
                                    OSSL_OP_DIGEST, RaceName, threads[t].properties)} :
         /\ WorldStep(r.w)
         /\ RaceReturned(t, threads[t].properties, TRUE, r.ret)
    /\ UNCHANGED <<last_call, faults, mid, fns, fd, dhVars>>

\* The thread is ready for its next call.
RaceNext(t) ==
    /\ threads[t].pc = "done"
    /\ threads' = [threads EXCEPT ![t] = Idle]
    /\ UNCHANGED <<mid, fns, fd, dhVars, libVars>>

RaceFetch == \E t \in Threads : RaceCall(t) \/ RaceGet(t) \/ RaceConstruct(t) \/ RaceReturn(t)
RaceAgain == \E t \in Threads : RaceNext(t)

NextRace == RaceFetch \/ RaceAgain \/ Free

SpecRace == Init /\ [][NextRace]_vars

\* SpecAlias: an application that fetches one digest under two spellings of
\* its name, releases what it fetched and changes the default properties.
AliasNames == {"A", "a"}
MdFetchAlias == MdFetchOf(AliasNames)

NextAlias == MdFetchAlias \/ Free \/ SetDefaultProperties

SpecAlias == Init /\ [][NextAlias]_vars

(***************************************************************************)
(* SpecDigest: an application that fetches digests and works with up to    *)
(* MaxCtx digest contexts: it initialises them, feeds them, finalises,     *)
(* copies, resets and frees them, and changes the default properties.  It  *)
(* keeps the digests it fetched.                                           *)
(***************************************************************************)
DigestNames == {"A"}
DigestTypes == {NULL, MaxMd + 1} \cup {a \in MdAddrs : held[a] > 0}
DigestQueries == {QFipsYes}
Counts == {0, 1}
MaxDigestHeld == 1
MaxDigestFaults == 2

\* At most MaxDigestFaults calls of a behaviour meet an increment of a
\* reference count that fails.
DigestEnvs == IF faults < MaxDigestFaults
              THEN {e \in [up_ok : BOOLEAN, add_ok : {TRUE}] : TRUE}
              ELSE {EnvOk}

DataBounded(w) == \A p \in ProvCtxAddrs : w.pc[p].data <= MaxData

\* Whether the call before this one was a successful final of c.
AfterFinalOf(c) ==
    /\ last_call.fn = "digest_final"
    /\ last_call.ret = 1
    /\ last_call.ctx = c

AppFetch ==
    /\ ~ub
    /\ HeldTotal < MaxDigestHeld
    /\ \E algorithm \in DigestNames, env \in DigestEnvs :
         \E r \in {EVP_MD_fetch(World(env), algorithm, QEmpty)} :
            /\ WorldStep(r.w)
            /\ faults' = FaultsAfter(env)
            /\ held' = IF r.ret = NULL THEN held ELSE [held EXCEPT ![r.ret] = @ + 1]
            /\ last_call' = [fn |-> "md_fetch", algorithm |-> algorithm, ret |-> r.ret]
    /\ UNCHANGED pureVars

\* The application changes the default properties while it has no context.
AppSetDefaults ==
    /\ ~ub
    /\ LiveCtxs = {}
    /\ \E propq \in DigestQueries :
         \E r \in {EVP_set_default_properties(World(EnvOk), propq)} :
            /\ WorldStep(r.w)
            /\ last_call' = [fn |-> "set_default_properties", propq |-> propq,
                             ret |-> r.ret]
    /\ UNCHANGED <<held, faults, pureVars>>

AppNew ==
    /\ ~ub
    /\ \E r \in {EVP_MD_CTX_new(World(EnvOk))} :
            /\ WorldStep(r.w)
            /\ last_call' = [fn |-> "ctx_new", ret |-> r.ret]
    /\ UNCHANGED <<held, faults, pureVars>>

AppInit ==
    /\ ~ub
    /\ \E c \in LiveCtxs, type \in DigestTypes, env \in DigestEnvs :
         \E r \in {EVP_DigestInit_ex(World(env), c, type)} :
            /\ WorldStep(r.w)
            /\ faults' = FaultsAfter(env)
            /\ last_call' = [fn |-> "digest_init", ctx |-> c, type |-> type,
                             ret |-> r.ret, trace |-> r.w.trace,
                             before |-> ctxs[c], after_final |-> AfterFinalOf(c)]
    /\ UNCHANGED <<held, pureVars>>

AppUpdate ==
    /\ ~ub
    /\ \E c \in LiveCtxs, count \in Counts :
         \E r \in {EVP_DigestUpdate(World(EnvOk), c, count)} :
            /\ DataBounded(r.w)
            /\ WorldStep(r.w)
            /\ last_call' = [fn |-> "digest_update", ctx |-> c, count |-> count,
                             ret |-> r.ret, before |-> ctxs[c], trace |-> r.w.trace]
    /\ UNCHANGED <<held, faults, pureVars>>

AppFinal ==
    /\ ~ub
    /\ \E c \in LiveCtxs :
         \E r \in {EVP_DigestFinal_ex(World(EnvOk), c)} :
            /\ WorldStep(r.w)
            /\ last_call' = [fn |-> "digest_final", ctx |-> c, ret |-> r.ret,
                             out |-> r.out, trace |-> r.w.trace, before |-> ctxs[c]]
    /\ UNCHANGED <<held, faults, pureVars>>

AppCopy ==
    /\ ~ub
    /\ \E out \in LiveCtxs, in \in LiveCtxs, env \in DigestEnvs :
         \E r \in {EVP_MD_CTX_copy_ex(World(env), out, in)} :
            /\ out # in
            /\ WorldStep(r.w)
            /\ faults' = FaultsAfter(env)
            /\ last_call' = [fn |-> "ctx_copy_ex", ctx |-> out, in |-> in,
                             ret |-> r.ret, trace |-> r.w.trace, before |-> ctxs[out]]
    /\ UNCHANGED <<held, pureVars>>

AppReset ==
    /\ ~ub
    /\ \E c \in LiveCtxs :
         \E w \in {EVP_MD_CTX_reset(World(EnvOk), c)} :
            /\ WorldStep(w)
            /\ last_call' = [fn |-> "ctx_reset", ctx |-> c, trace |-> w.trace,
                             before |-> ctxs[c]]
    /\ UNCHANGED <<held, faults, pureVars>>

AppFree ==
    /\ ~ub
    /\ \E c \in LiveCtxs :
         \E w \in {EVP_MD_CTX_free(World(EnvOk), c)} :
            /\ WorldStep(w)
            /\ last_call' = [fn |-> "ctx_free", ctx |-> c, trace |-> w.trace,
                             before |-> ctxs[c]]
    /\ UNCHANGED <<held, faults, pureVars>>

NextDigest ==
    \/ AppFetch \/ AppSetDefaults \/ AppNew \/ AppInit \/ AppUpdate
    \/ AppFinal \/ AppCopy \/ AppReset \/ AppFree

SpecDigest == Init /\ [][NextDigest]_vars

(***************************************************************************)
(* SpecOneShot: an application that fetches digests, releases them, makes  *)
(* and frees contexts, and computes digests with EVP_Digest, of a legacy   *)
(* EVP_MD or of a record it holds.                                         *)
(***************************************************************************)
OneShot ==
    /\ ~ub
    /\ \E type \in LegacyMds \cup {a \in MdAddrs : held[a] > 0}, count \in Counts,
          env \in Envs :
         \E r \in {EVP_Digest(World(env), count, type)} :
            /\ WorldStep(r.w)
            /\ faults' = FaultsAfter(env)
            /\ last_call' = [fn |-> "digest", type |-> type, count |-> count,
                             ret |-> r.ret, out |-> r.out, trace |-> r.w.trace,
                             ctx |-> AllocCtx(World(env)),
                             before |-> [md |-> md, ctxs |-> ctxs, provctxs |-> provctxs,
                                         store |-> libctx.store]]
    /\ UNCHANGED <<held, pureVars>>

NextOneShot == MdFetch \/ Free \/ CtxNew \/ CtxFree \/ DigestInit \/ OneShot

SpecOneShot == Init /\ [][NextOneShot]_vars

(***************************************************************************)
(* The DH key exchange of the default provider (dh_exch.c).  A pointer to  *)
(* a DH key is its address in dhs; what the keys hold is fixed: the size   *)
(* of the modulus, whether the public key is one DH_compute_key accepts,   *)
(* and how many leading zero bytes the shared secret of two keys has.      *)
(***************************************************************************)
\* fail_at says which DH_up_ref of the call fails: the first, the second,
\* or with 0 none.
DhWorld(fail_at) == [dh |-> dhs, dc |-> dhctxs, ub |-> FALSE, fail_at |-> fail_at]

DH_size(dh) == dh + 1
PubKeyValid(pub_key) == pub_key # MaxDh
LeadingZeros(dh, pub_key) == IF dh = pub_key THEN 0 ELSE 1

\* The number of bytes written, or -1: DH_compute_key strips the leading
\* zero bytes of the secret, DH_compute_key_padded keeps them.
DH_compute_key(pub_key, dh) ==
    IF PubKeyValid(pub_key) THEN DH_size(dh) - LeadingZeros(dh, pub_key) ELSE 0 - 1

DH_compute_key_padded(pub_key, dh) ==
    IF PubKeyValid(pub_key) THEN DH_size(dh) ELSE 0 - 1

DH_free(w, k) ==
    IF k = NULL THEN w
    ELSE IF ~w.dh[k].live THEN Undefined(w)
    ELSE IF w.dh[k].references > 1 THEN [w EXCEPT !.dh[k].references = @ - 1]
    ELSE [w EXCEPT !.dh[k] = FreeDh]

\* DH_up_ref reads r->references without a test of r.
DH_up_ref(w, k) ==
    IF k = NULL THEN [w |-> Undefined(w), ret |-> 0]
    ELSE IF ~w.dh[k].live THEN [w |-> Undefined(w), ret |-> 0]
    ELSE IF w.fail_at = 1 THEN [w |-> [w EXCEPT !.fail_at = 0], ret |-> 0]
    ELSE [w |-> [w EXCEPT !.dh[k].references = @ + 1,
                          !.fail_at = IF @ = 0 THEN 0 ELSE @ - 1],
          ret |-> 1]

AllocDhCtx(w) ==
    IF \A c \in DhCtxAddrs : w.dc[c].live THEN NULL
    ELSE CHOOSE c \in DhCtxAddrs :
             ~w.dc[c].live /\ \A d \in DhCtxAddrs : ~w.dc[d].live => c <= d

dh_newctx_at(w, c) ==
    IF c = NULL THEN [w |-> w, ret |-> NULL]
    ELSE [w |-> [w EXCEPT !.dc[c] = ZeroDhCtx], ret |-> c]

dh_newctx(w) == dh_newctx_at(w, AllocDhCtx(w))

\* DH_free(pdhctx->dh); pdhctx->dh = vdh; DH_up_ref(pdhctx->dh);
\* return pdhctx->dh != NULL;
dh_init_up_ref(w, c, vdh) ==
    [w |-> DH_up_ref(w, vdh).w, ret |-> IF vdh # NULL THEN 1 ELSE 0]

dh_init(w, c, vdh) ==
    dh_init_up_ref([DH_free(w, w.dc[c].dh) EXCEPT !.dc[c].dh = vdh], c, vdh)

dh_set_peer_up_ref(w, c, vdh) ==
    [w |-> DH_up_ref(w, vdh).w, ret |-> IF vdh # NULL THEN 1 ELSE 0]

dh_set_peer(w, c, vdh) ==
    dh_set_peer_up_ref([DH_free(w, w.dc[c].dhpeer) EXCEPT !.dc[c].dhpeer = vdh], c, vdh)

\* dh_derive(vpdhctx, key, keylen, outlen): key is NULL or a buffer of
\* outlen bytes, keylen the value *keylen has before the call.  The result
\* holds the value of *keylen after the call and the number of bytes
\* written to the buffer.
dh_derive_computed(ret, keylen) ==
    IF ret <= 0 THEN [ret |-> 0, keylen |-> keylen, written |-> 0]
    ELSE [ret |-> 1, keylen |-> ret, written |-> ret]

\* A mutant: the padding of the context is not looked at.
dh_derive_compute_unpadded(w, c, keylen) ==
    dh_derive_computed(DH_compute_key(w.dc[c].dhpeer, w.dc[c].dh), keylen)

dh_derive_compute(w, c, keylen) ==
    dh_derive_computed(
        IF w.dc[c].pad # 0
        THEN DH_compute_key_padded(w.dc[c].dhpeer, w.dc[c].dh)
        ELSE DH_compute_key(w.dc[c].dhpeer, w.dc[c].dh),
        keylen)

\* A mutant: the capacity of the buffer is not compared with the size.
dh_derive_sized_unchecked(w, c, key, keylen, outlen, dhsize) ==
    IF key = NULL THEN [ret |-> 1, keylen |-> dhsize, written |-> 0]
    ELSE dh_derive_compute(w, c, keylen)

dh_derive_sized(w, c, key, keylen, outlen, dhsize) ==
    IF key = NULL THEN [ret |-> 1, keylen |-> dhsize, written |-> 0]
    ELSE IF outlen < dhsize THEN [ret |-> 0, keylen |-> keylen, written |-> 0]
    ELSE dh_derive_compute(w, c, keylen)

\* A mutant: only the key of the context is tested, not the peer's.
dh_derive_without_peer_test(w, c, key, keylen, outlen) ==
    IF w.dc[c].dh = NULL THEN [ret |-> 0, keylen |-> keylen, written |-> 0]
    ELSE dh_derive_sized(w, c, key, keylen, outlen, DH_size(w.dc[c].dh))

dh_derive(w, c, key, keylen, outlen) ==
    IF w.dc[c].dh = NULL \/ w.dc[c].dhpeer = NULL
    THEN [ret |-> 0, keylen |-> keylen, written |-> 0]
    ELSE dh_derive_sized(w, c, key, keylen, outlen, DH_size(w.dc[c].dh))

\* Whether dh_derive reads a key that was freed: DH_size(pdhctx->dh), and
\* both keys in DH_compute_key.
dh_derive_reads_freed(w, c, key, outlen) ==
    /\ w.dc[c].dh # NULL /\ w.dc[c].dhpeer # NULL
    /\ \/ ~w.dh[w.dc[c].dh].live
       \/ /\ key # NULL /\ outlen >= DH_size(w.dc[c].dh)
          /\ ~w.dh[w.dc[c].dhpeer].live

dh_freectx(w, c) ==
    [DH_free(DH_free(w, w.dc[c].dh), w.dc[c].dhpeer) EXCEPT !.dc[c] = FreeDhCtx]

\* dh_dupctx.  The result of OPENSSL_zalloc is written through untested.
dh_dupctx_peer_done(r, d) ==
    IF r.ret = 0
    THEN [w |-> [DH_free(r.w, r.w.dc[d].dh) EXCEPT !.dc[d] = FreeDhCtx], ret |-> NULL]
    ELSE [w |-> r.w, ret |-> d]

dh_dupctx_peer(w, d) ==
    IF w.dc[d].dhpeer = NULL THEN [w |-> w, ret |-> d]
    ELSE dh_dupctx_peer_done(DH_up_ref(w, w.dc[d].dhpeer), d)

dh_dupctx_dh_done(r, d) ==
    IF r.ret = 0 THEN [w |-> [r.w EXCEPT !.dc[d] = FreeDhCtx], ret |-> NULL]
    ELSE dh_dupctx_peer(r.w, d)

dh_dupctx_dh(w, d) ==
    IF w.dc[d].dh = NULL THEN dh_dupctx_peer(w, d)
    ELSE dh_dupctx_dh_done(DH_up_ref(w, w.dc[d].dh), d)

dh_dupctx_copy(w, c, d) ==
    IF d = NULL THEN [w |-> Undefined(w), ret |-> NULL]
    ELSE dh_dupctx_dh([w EXCEPT !.dc[d] = w.dc[c]], d)

dh_dupctx(w, c) == dh_dupctx_copy(w, c, AllocDhCtx(w))

\* An OSSL_PARAM array is NULL or a sequence of [key, data_type, value].
OSSL_EXCHANGE_PARAM_PAD == "pad"
OSSL_PARAM_INTEGER == "OSSL_PARAM_INTEGER"
OSSL_PARAM_UTF8_STRING == "OSSL_PARAM_UTF8_STRING"
Param(k, t, v) == [key |-> k, data_type |-> t, value |-> v]
NullParams == [ptr |-> NULL, items |-> <<>>]
Params(items) == [ptr |-> NULL + 1, items |-> items]

\* The index of the first parameter of that key, 0 when there is none.
OSSL_PARAM_locate_const(params, key) ==
    IF \E i \in 1 .. Len(params.items) : params.items[i].key = key
    THEN CHOOSE i \in 1 .. Len(params.items) :
             /\ params.items[i].key = key
             /\ \A j \in 1 .. i - 1 : params.items[j].key # key
    ELSE NULL

OSSL_PARAM_get_int(p) ==
    IF p.data_type = OSSL_PARAM_INTEGER THEN [ret |-> 1, val |-> p.value]
    ELSE [ret |-> 0, val |-> 0]

\* A mutant: the value is read and the context is left as it was.
dh_set_params_got_unset(w, c, g) ==
    IF g.ret = 0 THEN [w |-> w, ret |-> 0] ELSE [w |-> w, ret |-> 1]

dh_set_params_got(w, c, g) ==
    IF g.ret = 0 THEN [w |-> w, ret |-> 0]
    ELSE [w |-> [w EXCEPT !.dc[c].pad = g.val], ret |-> 1]

dh_set_params_located(w, c, params, p) ==
    IF p = NULL THEN [w |-> w, ret |-> 0]
    ELSE dh_set_params_got(w, c, OSSL_PARAM_get_int(params.items[p]))

dh_set_params(w, c, params) ==
    IF c = NULL \/ params.ptr = NULL THEN [w |-> w, ret |-> 0]
    ELSE dh_set_params_located(w, c, params,
                               OSSL_PARAM_locate_const(params, OSSL_EXCHANGE_PARAM_PAD))

(***************************************************************************)
(* SpecDH: a key exchange layer that makes contexts, binds keys to them,   *)
(* sets their parameters, duplicates them, derives and frees them.         *)
(***************************************************************************)
MaxOut == DH_size(MaxDh)
Buffer == NULL + 1
LiveDhCtxs == {c \in DhCtxAddrs : dhctxs[c].live}
KeyInputs == {NULL} \cup DhAddrs
ParamInputs ==
    {NullParams, Params(<<>>),
     Params(<<Param(OSSL_EXCHANGE_PARAM_PAD, OSSL_PARAM_UTF8_STRING, 1)>>),
     Params(<<Param("other", OSSL_PARAM_INTEGER, 1)>>),
     Params(<<Param("other", OSSL_PARAM_INTEGER, 0),
              Param(OSSL_EXCHANGE_PARAM_PAD, OSSL_PARAM_INTEGER, 1)>>),
     Params(<<Param(OSSL_EXCHANGE_PARAM_PAD, OSSL_PARAM_INTEGER, 0)>>)}

\* The integer the caller asks the padding to be set to.
PadAsked(params) ==
    params.items[OSSL_PARAM_locate_const(params, OSSL_EXCHANGE_PARAM_PAD)].value

DhStep(w) ==
    /\ dhs' = w.dh
    /\ ub' = w.ub

DhFrameButFaults ==
    UNCHANGED <<mid, fns, fd, md, provider_refcnt, libctx, held, ctxVars, threads>>

DhFrame == DhFrameButFaults /\ UNCHANGED faults

\* At most MaxFaults calls of dh_init and dh_set_peer meet a DH_up_ref that
\* fails.
DhFails == IF faults < MaxFaults THEN {0, 1} ELSE {0}

DhNewCtx ==
    /\ ~ub
    /\ \E r \in {dh_newctx(DhWorld(0))} :
          /\ DhStep(r.w)
          /\ dhctxs' = r.w.dc
          /\ last_call' = [fn |-> "dh_newctx", ret |-> r.ret]
    /\ DhFrame

\* fails holds 1 when the DH_up_ref of the call may fail.
DhInitOf(fails) ==
    /\ ~ub
    /\ \E c \in LiveDhCtxs, vdh \in KeyInputs, fail_at \in fails :
         \E r \in {dh_init(DhWorld(fail_at), c, vdh)} :
          /\ fail_at = 1 => r.w.fail_at = 0
          /\ DhStep(r.w)
          /\ faults' = faults + fail_at
          /\ dhctxs' = [r.w.dc EXCEPT ![c].init_ok = (r.ret = 1)]
          /\ last_call' = [fn |-> "dh_init", ctx |-> c, vdh |-> vdh, ret |-> r.ret,
                           fail_at |-> fail_at]
    /\ DhFrameButFaults

DhInit == DhInitOf({0})

DhSetPeerOf(fails) ==
    /\ ~ub
    /\ \E c \in LiveDhCtxs, vdh \in KeyInputs, fail_at \in fails :
         \E r \in {dh_set_peer(DhWorld(fail_at), c, vdh)} :
          /\ fail_at = 1 => r.w.fail_at = 0
          /\ DhStep(r.w)
          /\ faults' = faults + fail_at
          /\ dhctxs' = [r.w.dc EXCEPT ![c].peer_ok = (r.ret = 1)]
          /\ last_call' = [fn |-> "dh_set_peer", ctx |-> c, vdh |-> vdh, ret |-> r.ret,
                           fail_at |-> fail_at]
    /\ DhFrameButFaults

DhSetPeer == DhSetPeerOf({0})

DhSetParams ==
    /\ ~ub
    /\ \E c \in LiveDhCtxs, params \in ParamInputs :
         \E r \in {dh_set_params(DhWorld(0), c, params)} :
          /\ DhStep(r.w)
          /\ dhctxs' = IF r.ret = 1
                        THEN [r.w.dc EXCEPT ![c].pad_set = PadAsked(params)]
                        ELSE r.w.dc
          /\ last_call' = [fn |-> "dh_set_params", ctx |-> c, params |-> params,
                           ret |-> r.ret, before |-> dhctxs[c]]
    /\ DhFrame

DhDupCtx ==
    /\ ~ub
    /\ \E c \in LiveDhCtxs, fail_at \in 0 .. 2 :
         \E r \in {dh_dupctx(DhWorld(fail_at), c)} :
          /\ DhStep(r.w)
          /\ dhctxs' = IF r.ret = NULL THEN r.w.dc
                        ELSE [r.w.dc EXCEPT ![r.ret].init_ok = dhctxs[c].init_ok,
                                            ![r.ret].peer_ok = dhctxs[c].peer_ok,
                                            ![r.ret].pad_set = dhctxs[c].pad_set]
          /\ last_call' = [fn |-> "dh_dupctx", ctx |-> c, ret |-> r.ret,
                           fail_at |-> fail_at, before |-> dhctxs, keys |-> dhs]
    /\ DhFrame

DhDeriveOf(keys, keylens, outlens) ==
    /\ ~ub
    /\ \E c \in LiveDhCtxs, key \in keys, keylen \in keylens, outlen \in outlens :
         \E r \in {dh_derive(DhWorld(0), c, key, keylen, outlen)} :
          /\ last_call' = [fn |-> "dh_derive", ctx |-> c, key |-> key,
                           keylen_before |-> keylen, outlen |-> outlen,
                           ret |-> r.ret, keylen |-> r.keylen, written |-> r.written,
                           before |-> dhctxs[c], keys |-> dhs]
          /\ ub' = dh_derive_reads_freed(DhWorld(0), c, key, outlen)
    /\ UNCHANGED <<dhs, dhctxs>>
    /\ DhFrame

DhDerive == DhDeriveOf({NULL, Buffer}, {0, MaxOut + 1}, 0 .. MaxOut)

DhFreeCtx ==
    /\ ~ub
    /\ \E c \in LiveDhCtxs :
         \E w \in {dh_freectx(DhWorld(0), c)} :
          /\ DhStep(w)
          /\ dhctxs' = w.dc
          /\ last_call' = [fn |-> "dh_freectx", ctx |-> c]
    /\ DhFrame

NextDH ==
    \/ DhNewCtx \/ DhInit \/ DhSetPeer \/ DhSetParams \/ DhDupCtx
    \/ DhDerive \/ DhFreeCtx

SpecDH == Init /\ [][NextDH]_vars

(***************************************************************************)
(* SpecDHRef: the same layer with a DH_up_ref that may fail in dh_init and *)
(* in dh_set_peer, and shared secrets written to a buffer that is large    *)
(* enough.                                                                 *)
(***************************************************************************)
DhInitFailing == DhInitOf(DhFails)
DhSetPeerFailing == DhSetPeerOf(DhFails)
DhDeriveFull == DhDeriveOf({Buffer}, {0}, {MaxOut})

NextDHRef ==
    \/ DhNewCtx \/ DhInitFailing \/ DhSetPeerFailing \/ DhSetParams \/ DhDupCtx
    \/ DhDeriveFull \/ DhFreeCtx

SpecDHRef == Init /\ [][NextDHRef]_vars

(***************************************************************************)
(* Claims about the DH key exchange, checked under SpecDH                  *)
(***************************************************************************)
Derived == last_call.fn = "dh_derive"
BothSucceeded(c) == dhctxs[c].init_ok /\ dhctxs[c].peer_ok
NothingReported ==
    /\ last_call.ret = 0
    /\ last_call.keylen = last_call.keylen_before
    /\ last_call.written = 0

\* C17: dh_derive on a context on which dh_init and dh_set_peer have not
\* both succeeded, on the context itself or on the one it was duplicated
\* from, returns 0 and leaves *keylen and the buffer as they were.
C17_DeriveNeedsBoth ==
    Derived /\ ~BothSucceeded(last_call.ctx) => NothingReported

\* A duplicate of a context that has its own key and no peer's key is asked
\* to derive into a buffer that is large enough.
C17_Witness ==
    /\ Derived
    /\ dhctxs[last_call.ctx].init_ok
    /\ ~dhctxs[last_call.ctx].peer_ok
    /\ \E d \in LiveDhCtxs \ {last_call.ctx} : dhctxs[d] = dhctxs[last_call.ctx]
    /\ last_call.key = Buffer
    /\ last_call.outlen = MaxOut
    /\ last_call.keylen_before = MaxOut + 1
    /\ NothingReported

SizeQuery ==
    /\ Derived
    /\ last_call.key = NULL
    /\ BothSucceeded(last_call.ctx)

\* The dh_derive that follows a size query: into a buffer of the capacity
\* the query has reported.
Following ==
    dh_derive(DhWorld(0), last_call.ctx, Buffer, last_call.keylen_before,
              last_call.keylen)

\* C18 (as amended): with dh_init and dh_set_peer succeeded, dh_derive with
\* key == NULL returns 1, writes nothing and sets *keylen to DH_size(dh),
\* which is positive; a following dh_derive with a buffer of that capacity
\* that succeeds reports at most that size, and exactly that size when
\* the pad parameter is true.
C18_SizeQueryIsUpperBound ==
    SizeQuery =>
        /\ last_call.ret = 1
        /\ last_call.written = 0
        /\ last_call.keylen > 0
        /\ last_call.keylen = DH_size(dhctxs[last_call.ctx].dh)
        /\ Following.ret = 1 =>
              /\ Following.keylen <= last_call.keylen
              /\ dhctxs[last_call.ctx].pad_set # 0
                    => Following.keylen = last_call.keylen

\* C18 (as claimed): the size the query reports is exactly the size the
\* following dh_derive reports, for either value of pad.
C18_AsClaimed ==
    SizeQuery =>
        /\ last_call.ret = 1
        /\ last_call.written = 0
        /\ last_call.keylen > 0
        /\ Following.ret = 1 => Following.keylen = last_call.keylen

\* A size query on a padding context whose secret has a leading zero byte,
\* followed by a derive that succeeds.
C18_Witness ==
    /\ SizeQuery
    /\ dhctxs[last_call.ctx].pad_set # 0
    /\ LeadingZeros(dhctxs[last_call.ctx].dh, dhctxs[last_call.ctx].dhpeer) > 0
    /\ Following.ret = 1
    /\ Following.keylen = last_call.keylen

TooSmall ==
    /\ Derived
    /\ last_call.key # NULL
    /\ last_call.before.dh # NULL
    /\ last_call.outlen < DH_size(last_call.before.dh)

\* C19: dh_derive with a buffer of a capacity below DH_size(dh) returns 0
\* and changes neither *keylen nor the buffer nor the context nor the keys.
C19_SmallBufferRefused ==
    TooSmall =>
        /\ NothingReported
        /\ dhctxs[last_call.ctx] = last_call.before
        /\ dhs = last_call.keys

\* A context with both keys, asked to derive into a buffer one byte short.
C19_Witness ==
    /\ TooSmall
    /\ BothSucceeded(last_call.ctx)
    /\ PubKeyValid(last_call.before.dhpeer)
    /\ last_call.outlen = DH_size(last_call.before.dh) - 1
    /\ last_call.keylen_before = MaxOut + 1
    /\ NothingReported

DerivedInto ==
    /\ Derived
    /\ last_call.key # NULL
    /\ last_call.ret = 1

SecretLen(c) ==
    DH_size(dhctxs[c].dh) - LeadingZeros(dhctxs[c].dh, dhctxs[c].dhpeer)

\* What the last call has to have done to the pad field.
PadFollowed ==
    /\ last_call.fn = "dh_newctx" /\ last_call.ret # NULL
          => dhctxs[last_call.ret].pad = 0
    /\ last_call.fn = "dh_set_params" /\ last_call.ret = 1
          => dhctxs[last_call.ctx].pad = PadAsked(last_call.params)
    /\ last_call.fn = "dh_dupctx" /\ last_call.ret # NULL
          => dhctxs[last_call.ret].pad = dhctxs[last_call.ctx].pad

DupFailed == last_call.fn = "dh_dupctx" /\ last_call.ret = NULL

\* C23: a dh_dupctx that fails, in the allocation of the new context or in
\* one of the two increments, returns NULL with nothing undefined done, the
\* new context freed, the context it was given unchanged and the reference
\* counts of the keys as they were before the call.
C23_AsClaimed ==
    DupFailed =>
        /\ ~ub
        /\ dhctxs = last_call.before
        /\ dhs = last_call.keys

\* dh_set_params was given an array that has no parameter of the pad key.
NoPadKey ==
    /\ last_call.fn = "dh_set_params"
    /\ last_call.params.ptr # NULL
    /\ OSSL_PARAM_locate_const(last_call.params, OSSL_EXCHANGE_PARAM_PAD) = NULL

\* C31: dh_set_params given a parameter array that does not contain the pad
\* key skips it silently: the call reports success and leaves pad, dh and
\* dhpeer of the context unchanged.
C31_AsClaimed ==
    NoPadKey =>
        /\ last_call.ret = 1
        /\ dhctxs[last_call.ctx] = last_call.before

\* The references to the key k that the live contexts own: one for each
\* dh field and each dhpeer field that points to it.
OwnedBy(c, k) ==
    (IF dhctxs[c].dh = k THEN 1 ELSE 0) + (IF dhctxs[c].dhpeer = k THEN 1 ELSE 0)
RECURSIVE OwnedIn(_, _)
OwnedIn(cs, k) ==
    IF cs = {} THEN 0
    ELSE LET c == CHOOSE c \in cs : TRUE IN OwnedBy(c, k) + OwnedIn(cs \ {c}, k)

\* C38: in every state reachable by dh_newctx, dh_init, dh_set_peer,
\* dh_dupctx, dh_set_params, dh_derive and dh_freectx, with a key bound
\* again and with failing increments, each non-NULL dh and dhpeer field of a
\* live context is covered by exactly one reference that the context owns
\* (the count of a key is the application's reference plus one for each such
\* field), also after a dh_init or dh_set_peer that reports success, and
\* once every context has been freed each key has the count it had before
\* the first call.
C38_AsClaimed ==
    /\ \A k \in DhAddrs :
          OwnedIn(LiveDhCtxs, k) > 0 =>
              /\ dhs[k].live
              /\ dhs[k].references = NewDh.references + OwnedIn(LiveDhCtxs, k)
    /\ LiveDhCtxs = {} => \A k \in DhAddrs : dhs[k] = NewDh

(***************************************************************************)
(* Claims about evp_generic_fetch, checked under Spec                      *)
(***************************************************************************)
Fetched == last_call.fn = "fetch" /\ last_call.ret # NULL

\* The property definition the default store has for a record.
StoredPropdefs(method) ==
    {libctx.store[i].propdef :
        i \in {i \in 1 .. Len(libctx.store) : libctx.store[i].method = method}}

\* C2: every implementation evp_generic_fetch returns, from the query cache
\* or freshly constructed, satisfies every mandatory atom of the caller's
\* query combined with the default properties in force at the call; so after
\* EVP_set_default_properties(p), a fetch with the empty query never returns
\* an implementation kept from the earlier defaults that does not satisfy p.
C2_FetchedSatisfiesQuery ==
    Fetched =>
        /\ StoredPropdefs(last_call.ret) # {}
        /\ \A def \in StoredPropdefs(last_call.ret) :
               ossl_property_match(def, ossl_property_merge(last_call.properties,
                                                            last_call.defaults))

\* An empty-query fetch under the defaults fips=yes succeeds while the store
\* still has the fips=no implementation fetched under the earlier defaults.
C2_Witness ==
    /\ Fetched
    /\ last_call.properties = QEmpty
    /\ last_call.defaults = QFipsYes
    /\ \E i \in 1 .. Len(libctx.store) :
           /\ libctx.store[i].propdef = QFipsNo
           /\ libctx.store[i].method # last_call.ret

\* C5: evp_generic_fetch with operation_id <= 0 returns NULL and has no
\* effect: no provider is queried, no record constructed, no name interned,
\* and the method store and the query cache are as before.
C5_NonPositiveOperationNoEffect ==
    (last_call.fn = "fetch" /\ last_call.operation_id <= 0) =>
        /\ last_call.ret = NULL
        /\ ~last_call.changed
        /\ last_call.queried = {}

\* Such a call is made for a name that was never fetched, the store and the
\* cache holding another one.
C5_Witness ==
    /\ last_call.fn = "fetch"
    /\ last_call.operation_id <= 0
    /\ last_call.name = "C"
    /\ libctx.store # <<>>
    /\ libctx.cache # {}


\* The references the default store holds on a record.
StoreRefs(method) ==
    Cardinality({i \in 1 .. Len(libctx.store) : libctx.store[i].method = method})

SameFetchAgain ==
    /\ Fetched
    /\ last_call'.fn = "fetch"
    /\ last_call'.ret # NULL
    /\ last_call'.operation_id = last_call.operation_id
    /\ last_call'.name = last_call.name
    /\ last_call'.properties = last_call.properties

\* C3: of two successful calls of evp_generic_fetch with the same arguments,
\* nothing else in between, the second returns the record the first
\* returned and differs from it only by one more reference on that record.
C3_AsClaimed ==
    [][SameFetchAgain =>
          /\ last_call'.ret = last_call.ret
          /\ md' = [md EXCEPT ![last_call.ret].refcnt = @ + 1]
          /\ provider_refcnt' = provider_refcnt
          /\ libctx' = libctx]_vars

\* C4: every record evp_generic_fetch has returned carries one reference
\* for each handle the callers still hold, besides those of the store: its
\* count is the store's references plus the handles not yet freed, and the
\* record lives as long as the store or a caller holds it.
C4_AsClaimed ==
    \A a \in MdAddrs :
        (StoreRefs(a) > 0 \/ held[a] > 0) =>
            /\ md[a].live
            /\ md[a].refcnt = StoreRefs(a) + held[a]

\* C25: evp_generic_fetch returns an implementation only if the increment
\* of its reference count for the caller succeeded: a call during which
\* up_ref_method fails returns NULL, on a hit of the query cache as on the
\* way through the store.
C25_AsClaimed ==
    (last_call.fn = "fetch" /\ ~last_call.env.up_ok) => last_call.ret = NULL

(***************************************************************************)
(* Claims about failed fetches, checked under SpecRetry                    *)
(***************************************************************************)
FetchFailed == last_call.fn = "fetch" /\ last_call.ret = NULL

\* Some provider has the algorithm, in a form the adapter accepts, with a
\* property definition that matches the query.
Available(operation_id, name, query) ==
    \E prov \in Providers :
        \E i \in 1 .. Len(query_operation(prov, operation_id)) :
            /\ query_operation(prov, operation_id)[i].algorithm_name = name
            /\ ~md_inconsistent(
                    md_decode(query_operation(prov, operation_id)[i].implementation, 1,
                              [md |-> NewMd, fncnt |-> 0]))
            /\ ossl_property_match(query_operation(prov, operation_id)[i].property_definition,
                                   query)

\* The fetch of the same operation and name that follows, with a query of
\* its own, nothing failing in it.
Retry(properties) ==
    evp_generic_fetch(World(EnvOk), last_call.operation_id, last_call.name, properties)

RetryDecidedAfresh ==
    FetchFailed =>
        \A properties \in Queries :
            Retry(properties).ret # NULL
                <=> Available(last_call.operation_id, last_call.name,
                              ossl_property_merge(properties, libctx.global_properties))

FailedFetchLeavesCache ==
    (last_call'.fn = "fetch" /\ last_call'.ret = NULL) => libctx'.cache = libctx.cache

PutDone == last_call.fn = "put_method_in_store"

RemovedAfterPut ==
    /\ last_call.fn = "ossl_method_store_remove"
    /\ last_call.after.fn = "put_method_in_store"
    /\ last_call.after.ret = 1
    /\ last_call.after.method = last_call.method

\* C26: put_method_in_store adds exactly one reference to the record when
\* it returns 1 and leaves its count as it was when it returns 0, also when
\* the increment succeeded and ossl_method_store_add failed; a record that
\* is added and then removed has the count it had before it was added.
C26_AsClaimed ==
    /\ PutDone =>
          md[last_call.method].refcnt =
              last_call.refcnt_before + (IF last_call.ret = 1 THEN 1 ELSE 0)
    /\ RemovedAfterPut =>
          md[last_call.method].refcnt = last_call.after.refcnt_before

(***************************************************************************)
(* Claims about evp_generic_do_all, checked under SpecDoAll                *)
(***************************************************************************)
Listed == last_call.fn = "do_all"
ListedEntries == 1 .. Len(ossl_algorithm_do_all(last_call.operation_id))
UserFnCalls(i) ==
    Cardinality({c \in 1 .. Len(last_call.calls) : last_call.calls[c].i = i})

\* new_method is called once for each entry, in their order.
MadeOncePerEntry ==
    /\ Len(last_call.made) = Len(ossl_algorithm_do_all(last_call.operation_id))
    /\ \A i \in ListedEntries : last_call.made[i].i = i

\* C6 (amended): in a call of evp_generic_do_all, for every (provider,
\* algorithm) entry the providers return, user_fn is invoked exactly once,
\* with the record new_method built for that entry, when new_method returns
\* one, and not at all when new_method returns NULL; entries of different
\* providers with the same name each get their own invocation.
C6_OncePerConstructedEntry ==
    Listed =>
        /\ MadeOncePerEntry
        /\ \A i \in ListedEntries :
               UserFnCalls(i) = IF last_call.made[i].method = NULL THEN 0 ELSE 1
        /\ \A c \in 1 .. Len(last_call.calls) :
               last_call.calls[c].method = last_call.made[last_call.calls[c].i].method

\* C6 as claimed: user_fn is invoked exactly once for every entry, those
\* whose dispatch table new_method rejects included.
C6_AsClaimed ==
    Listed => \A i \in ListedEntries : UserFnCalls(i) = 1

\* Both providers' "A" were handed to user_fn, each once, and the entry
\* whose table is rejected was not.
C6_Witness ==
    /\ Listed
    /\ {last_call.calls[c].i : c \in 1 .. Len(last_call.calls)} = {1, 2, 3}
    /\ last_call.calls[1].name = last_call.calls[3].name
    /\ last_call.made[4].method = NULL

\* What a call notes when each record is built, handed to user_fn and then
\* released, entry after entry.
RECURSIVE InOrder(_, _)
InOrder(made, i) ==
    IF i > Len(made) THEN <<>>
    ELSE (IF made[i].method = NULL THEN << <<"new_method", NULL>> >>
          ELSE << <<"new_method", made[i].method>>,
                  <<"user_fn", made[i].method>>,
                  <<"free_method", made[i].method>> >>)
         \o InOrder(made, i + 1)

\* The entries whose record user_fn took a reference of its own on, and
\* those of them that provider p has.
Taken ==
    {i \in last_call.keep : last_call.env.up_ok /\ last_call.made[i].method # NULL}
TakenOf(p) ==
    {i \in Taken : ossl_algorithm_do_all(last_call.operation_id)[i].prov = p}

\* Every record is handed over and then released, once each, and the
\* records that are live after the call are those that were before and
\* those user_fn took a reference on.
HandedThenReleased ==
    /\ ~ub
    /\ last_call.trace = InOrder(last_call.made, 1)
    /\ {a \in MdAddrs : md[a].live}
          = last_call.before.live \cup {last_call.made[i].method : i \in Taken}

\* C29 (amended): in evp_generic_do_all each record new_method builds is
\* handed to user_fn and then released by free_method, in that order and
\* once each; when the call returns, every record user_fn took no reference
\* on is destroyed, and the reference count of every provider is its value
\* before the call plus the number of its records user_fn took a reference
\* on.
C29_ProvidersHeldByKeptRecords ==
    Listed =>
        /\ HandedThenReleased
        /\ \A p \in Providers :
               provider_refcnt[p] = last_call.before.prov[p] + Cardinality(TakenOf(p))

\* C29 as claimed: the reference count of every provider is back at its
\* value before the call.
C29_AsClaimed ==
    Listed =>
        /\ HandedThenReleased
        /\ \A p \in Providers : provider_refcnt[p] = last_call.before.prov[p]

\* user_fn kept a record of one provider and none of the other.
C29_Witness ==
    /\ Listed
    /\ \E p, q \in Providers :
          /\ TakenOf(p) # {}
          /\ TakenOf(q) = {}
          /\ \E i \in ListedEntries \ Taken :
                /\ last_call.made[i].method # NULL
                /\ ossl_algorithm_do_all(last_call.operation_id)[i].prov = q

(***************************************************************************)
(* Claims about concurrent fetches, checked under SpecRace                 *)
(***************************************************************************)
\* Both threads have returned from calls with the same arguments that both
\* missed the query cache, and both were given a record.
BothMissed ==
    /\ \A t \in Threads :
          threads[t].pc = "done" /\ threads[t].missed /\ threads[t].ret # NULL
    /\ \A t, u \in Threads : threads[t].properties = threads[u].properties

\* The default store has one entry for a method id, a property definition
\* and a provider.
OneEntryPerAlgorithm ==
    \A i, j \in 1 .. Len(libctx.store) :
        (/\ libctx.store[i].methid = libctx.store[j].methid
         /\ libctx.store[i].propdef = libctx.store[j].propdef
         /\ md[libctx.store[i].method].prov = md[libctx.store[j].method].prov)
        => i = j

\* The records the default store does not have are released.
LosersReleased ==
    \A a \in MdAddrs :
        md[a].live => \E i \in 1 .. Len(libctx.store) : libctx.store[i].method = a

\* C21: when two threads call evp_generic_fetch concurrently with the same
\* arguments and both miss the query cache, both return the same record,
\* the default store has one entry per algorithm of a provider and not one
\* per caller, and the record of the thread that came second is released.
C21_AsClaimed ==
    BothMissed =>
        /\ \A t, u \in Threads : threads[t].ret = threads[u].ret
        /\ OneEntryPerAlgorithm
        /\ LosersReleased

(***************************************************************************)
(* Claims about implementation records, checked under SpecAlias            *)
(***************************************************************************)
\* A record that is live before and after a step has the same fields, its
\* reference count aside.
RecordsKept ==
    \A a \in MdAddrs :
        (md[a].live /\ md'[a].live)
            => [md'[a] EXCEPT !.refcnt = 0] = [md[a] EXCEPT !.refcnt = 0]

\* C22: once an implementation record is built, none of its fields changes
\* (its reference count aside); an EVP_MD_fetch that returns a record that
\* existed before, under the same name or under another name for it, leaves
\* its legacy numeric id and every other field as they were.
C22_AsClaimed == [][RecordsKept]_vars

(***************************************************************************)
(* Claims about digest contexts, checked under SpecCtx                     *)
(***************************************************************************)
ResetProvided == last_call.fn = "ctx_reset" /\ last_call.provided

\* C9: after EVP_MD_CTX_reset of a context bound to an implementation of a
\* provider, the context is as EVP_MD_CTX_new returns one (digest,
\* fetched_digest, reqdigest, provctx and flags cleared), the provider's
\* context has been freed, and the reference to the implementation released.
C9_AsClaimed ==
    ResetProvided =>
        /\ ctxs[last_call.ctx] = ZeroCtx
        /\ last_call.before.provctx # NULL =>
               ~provctxs[last_call.before.provctx].live
        /\ IF md[last_call.before.digest].live
           THEN md[last_call.before.digest].refcnt = last_call.refcnt - 1
           ELSE last_call.refcnt = 1

\* The contexts whose digest field points to a record.
CtxRefs(method) == Cardinality({c \in LiveCtxs : ctxs[c].digest = method})

\* C10: a digest context whose digest field points to an implementation of
\* a provider owns one counted reference to it, whether it was initialised
\* with a legacy EVP_MD or with a fetched one: the record is live and its
\* count is the references of the store and of the application plus one for
\* each such context.
C10_AsClaimed ==
    \A c \in LiveCtxs :
        ctxs[c].digest # NULL =>
            /\ md[ctxs[c].digest].live
            /\ md[ctxs[c].digest].refcnt =
                   StoreRefs(ctxs[c].digest) + held[ctxs[c].digest]
                   + CtxRefs(ctxs[c].digest)

\* EVP_MD_CTX_free of a context bound to an implementation of a provider.
FreeProvided == last_call.fn = "ctx_free" /\ last_call.before.digest # NULL

FreeCtxSteps ==
    IF last_call.before.provctx = NULL THEN <<>>
    ELSE << <<"freectx", last_call.before.provctx>> >>

\* C16: EVP_MD_CTX_free of a context bound to an implementation of a
\* provider does, in this order and once each: frees the provider context
\* (if the context has one) through freectx, releases the context's
\* reference to the implementation, frees the context record; and it reads
\* nothing that was released before.
C16_AsClaimed ==
    FreeProvided =>
        /\ ~ub
        /\ last_call.trace =
               FreeCtxSteps \o << <<"EVP_MD_meth_free", last_call.before.digest>>,
                                  <<"OPENSSL_free", last_call.ctx>> >>

\* EVP_DigestInit_ex has bound the context to a record that
\* evp_md_from_dispatch accepted and that is live.
InitOfAccepted ==
    /\ last_call.fn = "digest_init"
    /\ ctxs[last_call.ctx].digest # NULL
    /\ md[ctxs[last_call.ctx].digest].live

\* C35: for every record evp_md_from_dispatch accepts, one that has only the
\* one-shot digest slot and size included, EVP_DigestInit_ex either succeeds
\* or returns 0; it never calls a slot (newctx, init) the record does not
\* have.
C35_AsClaimed == InitOfAccepted => ~ub /\ last_call.ret \in {0, 1}

(***************************************************************************)
(* Claims about digest contexts, checked under SpecDigest                  *)
(***************************************************************************)
\* The records a store entry points to, and those the digest or the
\* fetched_digest field of a live context points to.
StoreReachable == {libctx.store[i].method : i \in 1 .. Len(libctx.store)}
CtxReachable ==
    {ctxs[c].digest : c \in LiveCtxs} \cup {ctxs[c].fetched_digest : c \in LiveCtxs}
Reachable == (StoreReachable \cup CtxReachable) \ {NULL}

\* C11: in every state that fetch, EVP_DigestInit_ex, EVP_DigestUpdate,
\* EVP_DigestFinal_ex, EVP_MD_CTX_copy_ex, EVP_MD_CTX_reset, EVP_MD_CTX_free
\* and EVP_set_default_properties reach, every implementation record that a
\* store entry or the digest or fetched_digest field of a live context
\* points to is live and has a reference count of at least 1.
C11_AsClaimed ==
    ~ub => \A m \in Reachable : md[m].live /\ md[m].refcnt >= 1

CopySucceeded == ~ub /\ last_call.fn = "ctx_copy_ex" /\ last_call.ret = 1

\* The entries of a trace that are equal to e.
Events(trace, e) == {i \in 1 .. Len(trace) : trace[i] = e}

\* C12: a successful EVP_MD_CTX_copy_ex(out, in) on a context bound to an
\* implementation of a provider increments the reference count of that
\* implementation exactly once, whether in was bound by an implicit or by an
\* explicit fetch, and out's provider context is the one dupctx returned
\* for in's provider context, a copy of it at another address.
C12_AsClaimed ==
    CopySucceeded =>
        /\ Cardinality(Events(last_call.trace,
                              <<"EVP_MD_up_ref", ctxs[last_call.in].digest, 1>>)) = 1
        /\ Cardinality(Events(last_call.trace,
                              <<"dupctx", ctxs[last_call.in].provctx>>)) = 1
        /\ ctxs[last_call.ctx].provctx \notin {NULL, ctxs[last_call.in].provctx}
        /\ provctxs[ctxs[last_call.ctx].provctx] = provctxs[ctxs[last_call.in].provctx]

\* The calls that act on one context, which last_call.ctx names.
CtxOps == {"digest_init", "digest_update", "digest_final", "ctx_copy_ex",
           "ctx_reset", "ctx_free"}

\* What a later final of context d returns depends on: the fields of d, its
\* provider context, and the implementation it is bound to (all of the
\* record but the reference count).
SameImpl(m1, m2) == [m1 EXCEPT !.refcnt = 0] = [m2 EXCEPT !.refcnt = 0]

Untouched(d) ==
    /\ ctxs'[d] = ctxs[d]
    /\ ctxs[d].provctx # NULL => provctxs'[ctxs[d].provctx] = provctxs[ctxs[d].provctx]
    /\ ctxs[d].digest # NULL => SameImpl(md'[ctxs[d].digest], md[ctxs[d].digest])

C13_Distinct ==
    CopySucceeded =>
        /\ ctxs[last_call.ctx].provctx # NULL
        /\ ctxs[last_call.in].provctx # NULL
        /\ ctxs[last_call.ctx].provctx # ctxs[last_call.in].provctx

\* The first call on one of the two contexts after the copy leaves the
\* other one untouched.
C13_Frame ==
    (/\ CopySucceeded
     /\ ~ub'
     /\ last_call'.fn \in CtxOps \ {"ctx_copy_ex"}
     /\ last_call'.ctx \in {last_call.ctx, last_call.in})
    => \A d \in {last_call.ctx, last_call.in} \ {last_call'.ctx} : Untouched(d)

\* C13: after a successful EVP_MD_CTX_copy_ex(out, in) the two contexts have
\* different provider contexts, and an update, final, reset, re-init or free
\* of one of them changes neither the fields, nor the provider context, nor
\* the implementation of the other, so that what a later final of the other
\* returns is not changed.
C13_AsClaimed == []C13_Distinct /\ [][C13_Frame]_vars

UpdateOfNewCtx == last_call.fn = "digest_update" /\ last_call.before = ZeroCtx

\* C14: EVP_DigestUpdate on a context that EVP_MD_CTX_new returned and that
\* was never initialised returns 0 for every count, 0 included, calls no
\* function of an implementation, and does nothing undefined.
C14_AsClaimed ==
    UpdateOfNewCtx =>
        /\ last_call.ret = 0
        /\ last_call.trace = <<>>
        /\ ~ub

\* The provider contexts that newctx returned during the last call.
NewCtxReturned ==
    {p \in ProvCtxAddrs : Events(last_call.trace, <<"newctx", p>>) # {}}

\* EVP_DigestInit_ex right after a successful EVP_DigestFinal_ex of the same
\* context, that binds the context to the implementation it was bound to,
\* and newctx gave a provider context.
ReInit ==
    /\ last_call.fn = "digest_init"
    /\ last_call.after_final
    /\ ctxs[last_call.ctx].digest = last_call.before.digest
    /\ NewCtxReturned # {}

InitProvCtx == [live |-> TRUE, state |-> "init", data |-> 0, impl |-> NULL]

\* C15: EVP_DigestInit_ex on a context that was initialised, fed and
\* finalised, with the same implementation, succeeds when newctx and init
\* do; the context is bound to a provider context that newctx has just
\* returned and that is in its initial state, with no flag set, which is the
\* state of a context initialised for the first time.
C15_ReInitAfterFinal ==
    ReInit =>
        /\ ~ub
        /\ last_call.ret = 1
        /\ ctxs[last_call.ctx].provctx \in NewCtxReturned
        /\ ctxs[last_call.ctx].flags = {}
        /\ ctxs[last_call.ctx].reqdigest = last_call.type
        /\ [provctxs[ctxs[last_call.ctx].provctx] EXCEPT !.impl = NULL] = InitProvCtx

\* A context that the implicit fetch had bound is finalised and initialised
\* again.
C15_Witness ==
    /\ ReInit
    /\ last_call.before.fetched_digest # NULL
    /\ EVP_MD_CTX_FLAG_CLEANED \in last_call.before.flags
    /\ last_call.before.provctx = NULL

\* EVP_DigestInit_ex of a context that is bound to an implementation and has
\* a provider context.
InitOfBound ==
    /\ last_call.fn = "digest_init"
    /\ last_call.before.digest # NULL
    /\ last_call.before.provctx # NULL

\* ... with the implementation the context is bound to
Rebound == InitOfBound /\ last_call.type = last_call.before.digest

\* ... and one that binds the context to another implementation.
Switched == InitOfBound /\ ctxs[last_call.ctx].digest # last_call.before.digest

\* The calls of a slot of an implementation in a trace.
SlotCalls(trace, slot) == {i \in 1 .. Len(trace) : trace[i][1] = slot}

\* C28: EVP_DigestInit_ex on a context that has a provider context, with the
\* implementation it is bound to, calls neither freectx nor newctx, keeps the
\* provider context and calls init exactly once, on it; with another
\* implementation of a provider, it frees the old provider context exactly
\* once, through freectx, before it calls newctx.
C28_AsClaimed ==
    /\ Rebound =>
          /\ ~ub
          /\ last_call.trace = << <<"dinit", last_call.before.provctx>> >>
          /\ ctxs[last_call.ctx].provctx = last_call.before.provctx
    /\ Switched =>
          /\ ~ub
          /\ Cardinality(Events(last_call.trace,
                                <<"freectx", last_call.before.provctx>>)) = 1
          /\ SlotCalls(last_call.trace, "freectx")
                = Events(last_call.trace, <<"freectx", last_call.before.provctx>>)
          /\ \A i \in SlotCalls(last_call.trace, "freectx"),
                j \in SlotCalls(last_call.trace, "newctx") : i < j

\* EVP_DigestFinal_ex of a context that is bound to an implementation of a
\* provider and has a provider context.
FinalOfProvided ==
    /\ last_call.fn = "digest_final"
    /\ last_call.before.digest # NULL
    /\ last_call.before.provctx # NULL

\* C32: after EVP_DigestFinal_ex returns on a provider-based context, with
\* success or with failure, the context retains no provider state: provctx
\* is NULL, freectx was called exactly once, on the former provider context,
\* and the flag EVP_MD_CTX_FLAG_CLEANED is set.
C32_AsClaimed ==
    FinalOfProvided =>
        /\ ~ub
        /\ ctxs[last_call.ctx].provctx = NULL
        /\ Cardinality(Events(last_call.trace,
                              <<"freectx", last_call.before.provctx>>)) = 1
        /\ SlotCalls(last_call.trace, "freectx")
              = Events(last_call.trace, <<"freectx", last_call.before.provctx>>)
        /\ EVP_MD_CTX_FLAG_CLEANED \in ctxs[last_call.ctx].flags

\* The calls of the envelope that may free a provider context.
FreeingOps == {"digest_init", "digest_final", "ctx_copy_ex", "ctx_reset", "ctx_free"}

\* The live contexts that hold the provider context p.
HoldersOf(p) == {c \in LiveCtxs : ctxs[c].provctx = p}

\* A provider context that was made and not yet freed belongs to exactly one
\* live context: none is lost with its context, none is shared.
NoneLost == \A p \in ProvCtxAddrs : provctxs[p].live => Cardinality(HoldersOf(p)) = 1

\* The context that holds a provider context is bound to the record whose
\* newctx or dupctx made it, and ctx->digest->freectx is the only freectx the
\* envelope calls.
HeldByMaker ==
    \A c \in LiveCtxs :
        ctxs[c].provctx # NULL /\ provctxs[ctxs[c].provctx].live
            => provctxs[ctxs[c].provctx].impl = ctxs[c].digest

\* A call became undefined while its context held a provider context: what
\* happens to that one is not known.
FateUnknown ==
    /\ ub
    /\ last_call.fn \in FreeingOps
    /\ last_call.before.provctx # NULL
    /\ Events(last_call.trace, <<"freectx", last_call.before.provctx>>) = {}

\* The provider contexts a step hands to freectx were live, or made earlier
\* in the step, and none is handed over twice.
FreedOnce ==
    last_call'.fn \in FreeingOps =>
        \A i \in SlotCalls(last_call'.trace, "freectx") :
            /\ last_call'.trace[i][2] # NULL
            /\ \/ provctxs[last_call'.trace[i][2]].live
               \/ \E j \in 1 .. i - 1 :
                     last_call'.trace[j] = <<"newctx", last_call'.trace[i][2]>>
            /\ \A j \in SlotCalls(last_call'.trace, "freectx") :
                  last_call'.trace[j] = last_call'.trace[i] => j = i

SecondReset ==
    /\ last_call.fn = "ctx_reset"
    /\ last_call'.fn = "ctx_reset"
    /\ last_call'.ctx = last_call.ctx

\* C33: for every sequence of init, update, final, copy_ex, reset and free
\* on contexts of provider implementations, every provider context that
\* newctx or dupctx returned is passed to freectx at most once, always to the
\* freectx of the implementation that made it, and exactly once by the time
\* its context has been freed; a second EVP_MD_CTX_reset in a row frees
\* nothing.
C33_AsClaimed ==
    /\ [](NoneLost /\ HeldByMaker /\ ~FateUnknown)
    /\ [][FreedOnce /\ (SecondReset => SlotCalls(last_call'.trace, "freectx") = {})]_vars

\* The slots that work on a provider context the envelope hands them.
StateSlots == {"dupdate", "dfinal", "dupctx"}

\* C34: the envelope invokes the update, final and dupctx slots only with a
\* provider context, never with NULL: EVP_DigestUpdate, EVP_DigestFinal_ex
\* and EVP_MD_CTX_copy_ex on a context that was finalised and not
\* initialised again do not reach the implementation.
C34_AsClaimed ==
    last_call.fn \in {"digest_update", "digest_final", "ctx_copy_ex"} =>
        \A i \in 1 .. Len(last_call.trace) :
            last_call.trace[i][1] \in StateSlots => last_call.trace[i][2] # NULL

\* EVP_DigestInit_ex with type == NULL of a context that is bound to an
\* implementation of a provider.
InitWithoutType ==
    /\ last_call.fn = "digest_init"
    /\ last_call.type = NULL
    /\ last_call.before.digest # NULL
    /\ md[last_call.before.digest].live

\* C37: EVP_DigestInit_ex with type == NULL on a context that is bound to an
\* implementation of a provider initialises the context again with that
\* implementation, as the legacy path does for a NULL type, and returns the
\* result of its init; it does not read through the NULL type.
C37_AsClaimed ==
    InitWithoutType =>
        /\ ~ub
        /\ ctxs[last_call.ctx].digest = last_call.before.digest
        /\ last_call.ret = 1
        /\ Events(last_call.trace, <<"dinit", ctxs[last_call.ctx].provctx>>) # {}

(***************************************************************************)
(* Claims about EVP_Digest, checked under SpecOneShot                      *)
(***************************************************************************)
\* EVP_Digest was called and had a context to work with.
Digested == last_call.fn = "digest" /\ last_call.ctx # NULL

\* The calls of the three functions in a trace, with what they returned.
IsStep(e) == e[1] \in {"EVP_DigestInit_ex", "EVP_DigestUpdate", "EVP_DigestFinal_ex"}
Steps(trace) == SelectSeq(trace, IsStep)

\* Init, update and final in that order, none of them after one that failed.
StepsInOrder(steps) ==
    \/ steps = << <<"EVP_DigestInit_ex", 0>> >>
    \/ steps = << <<"EVP_DigestInit_ex", 1>>, <<"EVP_DigestUpdate", 0>> >>
    \/ \E r \in {0, 1} :
          steps = << <<"EVP_DigestInit_ex", 1>>, <<"EVP_DigestUpdate", 1>>,
                     <<"EVP_DigestFinal_ex", r>> >>

AllSucceeded(steps) == Len(steps) = 3 /\ \A i \in 1 .. 3 : steps[i][2] = 1

LiveProvCtxs(pcs) == {p \in ProvCtxAddrs : pcs[p].live}

\* C39: EVP_Digest returns 1 if and only if EVP_DigestInit_ex,
\* EVP_DigestUpdate and EVP_DigestFinal_ex all succeed; it runs them in that
\* order and stops at the first that fails, and on every path it frees the
\* temporary context and leaves the reference count of every implementation
\* and the set of live provider contexts as they were before the call.
C39_AsClaimed ==
    Digested =>
        /\ ~ub
        /\ StepsInOrder(Steps(last_call.trace))
        /\ last_call.ret = 1 <=> AllSucceeded(Steps(last_call.trace))
        /\ Events(last_call.trace, <<"OPENSSL_free", last_call.ctx>>) # {}
        /\ ctxs = last_call.before.ctxs
        /\ \A a \in MdAddrs :
              last_call.before.md[a].live =>
                  md[a].live /\ md[a].refcnt = last_call.before.md[a].refcnt
        /\ LiveProvCtxs(provctxs) = LiveProvCtxs(last_call.before.provctxs)

(***************************************************************************)
(* SpecMethodId: the identities are drawn from the edges of their ranges.  *)
(***************************************************************************)
MaxSmallId == 2

NameIds == (0 .. MaxSmallId)
           \cup {TwoPow8 - 1, TwoPow8, TwoPow8 + 1, TwoPow16, TwoPow24 - 1,
                 TwoPow24, TwoPow24 + 1, TwoPow24 + TwoPow8}
OperationIds == (0 .. MaxSmallId) \cup {OSSL_OP_KEYMGMT, OSSL_OP_KEYEXCH, TwoPow8 - 1, TwoPow8, TwoPow8 + 1}

NoId == [called |-> FALSE, id |-> Zero32]

InitMethodId ==
    /\ fns = <<>> /\ fd = NoCall
    /\ InitLib
    /\ mid \in [a : [op : OperationIds, name : NameIds, r : {NoId}],
             b : [op : OperationIds, name : NameIds, r : {NoId}]]

CallMethodId(p) == [p EXCEPT !.r = [called |-> TRUE, id |-> method_id(p.op, p.name)]]

ComputeMethodIds ==
    /\ ~mid.a.r.called
    /\ mid' = [a |-> CallMethodId(mid.a), b |-> CallMethodId(mid.b)]

NextMethodId ==
    ComputeMethodIds /\ UNCHANGED <<fns, fd, dhVars, threads>> /\ UNCHANGED libVars

SpecMethodId == InitMethodId /\ [][NextMethodId]_vars

InRange(p) == /\ p.name \in 1 .. (TwoPow24 - 1)
              /\ p.op \in 1 .. (TwoPow8 - 1)

\* C1: for name_id in 1..2^24-1 and operation_id in 1..2^8-1, method_id is
\* non-zero, the name is id >> 8 and the operation is id & 0xFF, so two such
\* pairs with the same method id are the same pair.
C1_MethodIdInjective ==
    (mid.a.r.called /\ InRange(mid.a) /\ InRange(mid.b))
    => /\ mid.a.r.id # Zero32
       /\ Shr8(mid.a.r.id) = mid.a.name
       /\ And32(mid.a.r.id, MaskOp) = U32(mid.a.op)
       /\ (mid.a.r.id = mid.b.r.id => (mid.a.op = mid.b.op /\ mid.a.name = mid.b.name))

C1_Witness ==
    /\ mid.a.r.called
    /\ mid.a.name = TwoPow24 - 1 /\ mid.a.op = TwoPow8 - 1
    /\ mid.b.name = 1 /\ mid.b.op = TwoPow8 - 1
    /\ mid.a.r.id # mid.b.r.id

OutOfRange(p) == p.name >= TwoPow24 \/ p.op >= TwoPow8 \/ p.name = 0 \/ p.op = 0

\* C24: method_id returns 0 whenever name_id >= 2^24 or operation_id >= 2^8
\* or one of them is 0, so that the identity of a pair out of range is
\* never the non-zero identity of a pair in range.
C24_AsClaimed ==
    mid.a.r.called =>
        /\ OutOfRange(mid.a) => mid.a.r.id = Zero32
        /\ (OutOfRange(mid.a) /\ InRange(mid.b) /\ mid.a.r.id # Zero32)
              => mid.a.r.id # mid.b.r.id

\* C40: OSSL_OP__HIGHEST is the highest operation number: every operation
\* id of core_numbers.h (digest, cipher, key management, key exchange) is at
\* least 1 and at most OSSL_OP__HIGHEST, and every function id of every
\* operation is non-zero and distinct from the other function ids of the
\* same operation.  It is evaluated for the operations whose ids method_id
\* is given.
C40_AsClaimed ==
    \A op \in {op \in Operations : op.id \in {mid.a.op, mid.b.op}} :
        /\ op.id >= 1 /\ op.id <= OSSL_OP__HIGHEST
        /\ \A i \in 1 .. Len(op.functions) :
              /\ op.functions[i] # 0
              /\ \A j \in 1 .. Len(op.functions) :
                    op.functions[i] = op.functions[j] => i = j

(***************************************************************************)
(* SpecDispatch: evp_md_from_dispatch applied to a dispatch table.  The    *)
(* table is a concatenation, in either order, of what the provider gives   *)
(* for each function id: nothing, a function, a null pointer, or the id    *)
(* twice.                                                                  *)
(***************************************************************************)

Absent == <<>>
Once(id) == <<Entry(id, F1)>>
Variants(id) == {Absent, Once(id), <<Entry(id, NULL)>>,
                 <<Entry(id, NULL), Entry(id, F2)>>, <<Entry(id, F1), Entry(id, F2)>>}
Simple(id) == {Absent, Once(id)}

RECURSIVE Reverse(_)
Reverse(s) == IF s = <<>> THEN <<>> ELSE Append(Reverse(Tail(s)), Head(s))

Tables ==
    { (IF rev THEN Reverse(body) ELSE body) \o <<Terminator>> :
        <<rev, body>> \in BOOLEAN \X
          { n \o i \o u \o f \o d \o r \o s \o x :
              <<n, i, u, f, d, r, s, x>> \in
                  Variants(OSSL_FUNC_DIGEST_NEWCTX) \X Simple(OSSL_FUNC_DIGEST_INIT)
                  \X Simple(OSSL_FUNC_DIGEST_UPDATE) \X Simple(OSSL_FUNC_DIGEST_FINAL)
                  \X Variants(OSSL_FUNC_DIGEST_DIGEST) \X Simple(OSSL_FUNC_DIGEST_FREECTX)
                  \X Variants(OSSL_FUNC_DIGEST_SIZE)
                  \X {Absent, <<Entry(UnknownFunctionId, F1)>>,
                      <<Entry(OSSL_FUNC_DIGEST_DUPCTX, F1)>>} } }

InitDispatch ==
    /\ mid = [a |-> NoId, b |-> NoId]
    /\ fns \in Tables
    /\ fd = NoCall
    /\ InitLib

\* The adapter is called once on the table, with or without a provider.
CallFromDispatch ==
    /\ ~fd.called
    /\ \E prov \in Providers \cup {NULL}, mem \in {"none", "md", "name"} :
         LET r == evp_md_from_dispatch(World0(md, provider_refcnt, {}), "A", fns, prov, mem)
         IN /\ md' = r.w.md
            /\ provider_refcnt' = r.w.prov
            /\ fd' = [called |-> TRUE, prov |-> prov, mem |-> mem, ret |-> r.ret,
                      prov_before |-> provider_refcnt]
    /\ UNCHANGED <<mid, fns, dhVars, threads, appVars>>

\* The caller releases the record it was given.
ReleaseFromDispatch ==
    /\ fd.called /\ fd.ret # NULL /\ md[fd.ret].live
    /\ LET w == EVP_MD_meth_free(World0(md, provider_refcnt, {}), fd.ret)
       IN md' = w.md /\ provider_refcnt' = w.prov
    /\ UNCHANGED <<mid, fns, fd, dhVars, threads, appVars>>

NextDispatch == CallFromDispatch \/ ReleaseFromDispatch

SpecDispatch == InitDispatch /\ [][NextDispatch]_vars

Has(table, id) == \E i \in 1 .. Len(table) : table[i].function_id = id
NoNullFunction(table) ==
    \A i \in 1 .. Len(table) - 1 : table[i].function # NULL
FiveIds == {OSSL_FUNC_DIGEST_NEWCTX, OSSL_FUNC_DIGEST_INIT, OSSL_FUNC_DIGEST_UPDATE,
            OSSL_FUNC_DIGEST_FINAL, OSSL_FUNC_DIGEST_FREECTX}
AllFive(table) == \A id \in FiveIds : Has(table, id)
NoneOfFive(table) == \A id \in FiveIds : ~Has(table, id)
Decided == fd.called /\ fd.mem = "none" /\ NoNullFunction(fns)

\* Entries with a function id that is none of the digest function ids, and
\* the table without such entries, or with one more of them at position k.
OtherEntries == {Entry(id, f) : id \in {UnknownFunctionId, -1}, f \in {NULL, F1}}
IsDigestEntry(e) == e.function_id \in DigestFunctionIds \cup {0}
WithoutOthers(table) == SelectSeq(table, IsDigestEntry)
WithOther(table, k, e) ==
    SubSeq(table, 1, k - 1) \o <<e>> \o SubSeq(table, k, Len(table))

\* What the call would have returned for another table, and whether that is
\* what it did return: the same acceptance and the same record.
FromDispatch(table) ==
    evp_md_from_dispatch(World0(EmptyHeap, fd.prov_before, {}), "A", table,
                         fd.prov, fd.mem)
SameOutcome(r) ==
    /\ r.ret = fd.ret
    /\ (fd.ret # NULL /\ md[fd.ret].live) => r.w.md[r.ret] = md[fd.ret]

\* C30: entries of the dispatch table whose function id is none of the
\* eleven digest function ids have no effect on evp_md_from_dispatch: with
\* such entries removed, or with one more of them at any place before the
\* terminator, the table is accepted or rejected as before and every slot is
\* decoded as before.
C30_OtherIdsIgnored ==
    fd.called =>
        /\ SameOutcome(FromDispatch(WithoutOthers(fns)))
        /\ \A k \in 1 .. Len(fns), e \in OtherEntries :
               SameOutcome(FromDispatch(WithOther(fns, k, e)))

\* A table with an entry of another function id was accepted.
C30_Witness ==
    /\ fd.called
    /\ Has(fns, UnknownFunctionId)
    /\ fd.ret # NULL
    /\ md[fd.ret].live
    /\ md[fd.ret].newctx # NULL

\* The function of the first entry of the table that has the function id,
\* NULL when no entry has it.
FirstOf(table, id) ==
    IF Has(table, id)
    THEN table[CHOOSE i \in 1 .. Len(table) :
                   /\ table[i].function_id = id
                   /\ \A j \in 1 .. i - 1 : table[j].function_id # id].function
    ELSE NULL

Returned == fd.called /\ fd.ret # NULL /\ md[fd.ret].live

FiveSlots(m) == {m.newctx, m.dinit, m.dupdate, m.dfinal, m.freectx}

\* C36: for every zero-terminated digest dispatch table, tables that repeat
\* a function id or carry a null function pointer included, a record that
\* evp_md_from_dispatch returns has either all five of newctx, dinit,
\* dupdate, dfinal, freectx non-NULL or all five NULL, and each decoded slot
\* holds the pointer of the first entry that has its function id.
C36_AsClaimed ==
    Returned =>
        /\ (NULL \notin FiveSlots(md[fd.ret]) \/ FiveSlots(md[fd.ret]) = {NULL})
        /\ md[fd.ret].newctx = FirstOf(fns, OSSL_FUNC_DIGEST_NEWCTX)
        /\ md[fd.ret].dinit = FirstOf(fns, OSSL_FUNC_DIGEST_INIT)
        /\ md[fd.ret].dupdate = FirstOf(fns, OSSL_FUNC_DIGEST_UPDATE)
        /\ md[fd.ret].dfinal = FirstOf(fns, OSSL_FUNC_DIGEST_FINAL)
        /\ md[fd.ret].digest = FirstOf(fns, OSSL_FUNC_DIGEST_DIGEST)
        /\ md[fd.ret].freectx = FirstOf(fns, OSSL_FUNC_DIGEST_FREECTX)
        /\ md[fd.ret].dupctx = FirstOf(fns, OSSL_FUNC_DIGEST_DUPCTX)
        /\ md[fd.ret].size = FirstOf(fns, OSSL_FUNC_DIGEST_SIZE)

\* C7 as amended: for a table of non-null functions (and no allocation
\* failure) the adapter returns a record if and only if size is present and
\* either all five of newctx, init, update, final, freectx are present, or
\* none of the five is present and the one-shot digest is present.
C7_CompletenessRule ==
    Decided =>
        (fd.ret # NULL <=>
            /\ Has(fns, OSSL_FUNC_DIGEST_SIZE)
            /\ \/ AllFive(fns)
               \/ NoneOfFive(fns) /\ Has(fns, OSSL_FUNC_DIGEST_DIGEST))

\* C7 as claimed: a record is returned if and only if size is present and
\* either all five are present or the one-shot digest is present (also when
\* only some of the five come with it).
C7_AsClaimed ==
    Decided =>
        (fd.ret # NULL <=>
            /\ Has(fns, OSSL_FUNC_DIGEST_SIZE)
            /\ (AllFive(fns) \/ Has(fns, OSSL_FUNC_DIGEST_DIGEST)))

\* A table with size, digest and only some of the five has been rejected.
C7_Witness ==
    /\ Decided /\ fd.ret = NULL
    /\ Has(fns, OSSL_FUNC_DIGEST_SIZE) /\ Has(fns, OSSL_FUNC_DIGEST_DIGEST)
    /\ ~AllFive(fns) /\ ~NoneOfFive(fns)

LiveMd == {a \in MdAddrs : md[a].live}

\* C8: a call that returns NULL leaves no record allocated and every
\* provider's reference count as it was; a call that returns a record has
\* bound it to the provider and counted that provider exactly once more.
C8_RejectFreesAcceptBinds ==
    (fd.called /\ (fd.ret = NULL \/ md[fd.ret].live)) =>
        IF fd.ret = NULL
        THEN LiveMd = {} /\ provider_refcnt = fd.prov_before
        ELSE /\ LiveMd = {fd.ret}
             /\ md[fd.ret].prov = fd.prov /\ md[fd.ret].refcnt = 1
             /\ \A p \in Providers :
                  provider_refcnt[p] = fd.prov_before[p] + (IF p = fd.prov THEN 1 ELSE 0)

\* A table was rejected after the record had been allocated, for a provider.
C8_Witness ==
    /\ fd.called /\ fd.mem = "none" /\ fd.prov # NULL /\ fd.ret = NULL
    /\ Has(fns, OSSL_FUNC_DIGEST_NEWCTX) /\ ~Has(fns, OSSL_FUNC_DIGEST_SIZE)

=============================================================================
